---- MODULE Spec2Model ----
(***************************************************************************)
(* A model of the ISP Health Monitor integration                            *)
(* (custom_components/isp_health): the route-stability tracker, the        *)
(* address-lookup provider chain, the DNS-server discovery chain and the   *)
(* collection cycle driven by the coordinator.                             *)
(*                                                                         *)
(* Conventions.  Python None is the string PyNone.  An Optional[List] is   *)
(* <<>> (None) or <<list>> (a value).  A dict is a TLA+ function whose     *)
(* DOMAIN is its key set.  Percentages and milliseconds that the code      *)
(* rounds to two decimals are integers in hundredths (100.0 is 10000).     *)
(***************************************************************************)
EXTENDS Integers, Sequences, FiniteSets, TLC

VARIABLES
    route_history,   \* RouteStabilitySensor.route_history
    route_result,    \* what the last RouteStabilitySensor.get_data returned
    trace_log,       \* history variable: every snapshot appended so far, in order
    last_trace,      \* history variable: what the latest traceroute did
    ip_in,           \* the inputs of the last address lookup
    ip_out,          \* its attempts and its outcome
    dns_in,          \* the environment of the last DNS discovery
    dns_out,         \* its calls and what it returned
    entry,           \* the config entry (entry.data) of the coordinator
    pc,              \* where the refresh cycle is
    todo,            \* the sensors get_all_sensor_data still has to visit
    results,         \* the results dict of get_all_sensor_data
    probe_log,       \* history variable: the get_data calls of this cycle, in order
    data,            \* what _async_update_data returned
    streak,          \* history variable: consecutive cycles with a successful trace
    fn_in,           \* the argument of the function applied on its own
    fn_out,          \* what it returned
    heap,            \* the RouteStabilitySensor objects constructed so far
    cycles           \* the refresh cycles started so far, overlapping or not

vars == <<route_history, route_result, trace_log, last_trace, ip_in, ip_out, dns_in, dns_out,
          entry, pc, todo, results, probe_log, data, streak, fn_in, fn_out,
          heap, cycles>>

routeVars == <<route_history, route_result, trace_log, last_trace>>
ipVars    == <<ip_in, ip_out>>
dnsVars   == <<dns_in, dns_out>>
cycleVars == <<entry, pc, todo, results, probe_log, data, streak>>
fnVars    == <<fn_in, fn_out>>
overlapVars == <<heap, cycles>>

PyNone == "<None>"
Now    == "<now>"

Get(d, k) == IF k \in DOMAIN d THEN d[k] ELSE PyNone

Last(s) == s[Len(s)]

\* d[key] = value
Put(d, key, value) ==
    [k \in DOMAIN d \cup {key} |-> IF k = key THEN value ELSE d[k]]

EmptyDict == [k \in {} |-> PyNone]

\* The integer nearest to num/den (num >= 0, den > 0), a tie going to the
\* even one as Python's round() does.
RoundDiv(num, den) ==
    LET q == num \div den
        r == num % den
    IN  IF 2 * r < den THEN q
        ELSE IF 2 * r > den THEN q + 1
        ELSE IF q % 2 = 0 THEN q ELSE q + 1

\* round(num / den, 2), in hundredths
Round2(num, den) == RoundDiv(100 * num, den)

(***************************************************************************)
(* Route tracker: sensors.py, RouteStabilitySensor                         *)
(***************************************************************************)

max_history == 10

\* How many successful traces one tracker is followed for.
MaxTraces == 11

\* What "traceroute -n -m 10 target" can do: exit 0 with hop lines (each line
\* is its second column: a hop address or "*"), exit non-zero, or not finish
\* within the 30 s of wait_for.
TraceLines ==
    { <<"10.0.0.1", "198.51.100.1">>,
      <<"198.51.100.1", "*", "10.0.0.1">>,
      <<"*", "*">> }

TraceOutcomes ==
    { [kind |-> "exit0", hops |-> l] : l \in TraceLines }
      \cup { [kind |-> "nonzero", hops |-> <<>>], [kind |-> "timeout", hops |-> <<>>] }

RECURSIVE ParseHops(_)
ParseHops(lines) ==
    IF lines = <<>> THEN <<>>
    ELSE IF lines[1] # "*" THEN <<lines[1]>> \o ParseHops(Tail(lines))
    ELSE ParseHops(Tail(lines))

\* _get_route: Optional[List[str]]
_get_route(outcome) ==
    IF outcome.kind = "exit0" THEN <<ParseHops(outcome.hops)>> ELSE <<>>

RECURSIVE CountMatchesMutFirst(_, _, _)
CountMatchesMutFirst(h, cur, i) ==
    IF i > Len(h) - 1 THEN 0
    ELSE (IF h[1] = h[i] THEN 1 ELSE 0) + CountMatchesMutFirst(h, cur, i + 1)

\* the loop of _calculate_stability: matches among route_history[0 .. len-2]
RECURSIVE CountMatches(_, _, _)
CountMatches(h, cur, i) ==
    IF i > Len(h) - 1 THEN 0
    ELSE (IF cur = h[i] THEN 1 ELSE 0) + CountMatches(h, cur, i + 1)

\* _calculate_stability followed by the round(stability, 2) of get_data,
\* in hundredths of a percent.
_calculate_stability(h) ==
    IF Len(h) < 2 THEN 10000
    ELSE LET matches == CountMatches(h, Last(h), 1)
             total_comparisons == Len(h) - 1
         IN  Round2(matches * 100, total_comparisons)

TrimHistoryMutNewest(h) == IF Len(h) > max_history THEN SubSeq(h, 1, Len(h) - 1) ELSE h

\* if len(self.route_history) > self.max_history: self.route_history.pop(0)
TrimHistory(h) == IF Len(h) > max_history THEN Tail(h) ELSE h

RouteStabilitySensor_get_dataMutClear(h, outcome) ==
    LET current_route == _get_route(outcome)
    IN  IF current_route # <<>> /\ current_route[1] # <<>>
        THEN LET h2 == TrimHistory(Append(h, current_route[1]))
             IN  [history |-> h2,
                  result  |-> [overall_stability |-> _calculate_stability(h2),
                               route_changes     |-> Len(h2) - 1,
                               current_route     |-> current_route[1],
                               status            |-> "online",
                               error             |-> PyNone]]
        ELSE [history |-> <<>>,
              result  |-> [overall_stability |-> 0,
                           route_changes     |-> 0,
                           current_route     |-> "Unknown",
                           status            |-> "offline",
                           error             |-> "Failed to get route"]]

RouteStabilitySensor_get_dataMutNotNone(h, outcome) ==
    LET current_route == _get_route(outcome)
    IN  IF current_route # <<>>
        THEN LET h2 == TrimHistory(Append(h, current_route[1]))
             IN  [history |-> h2,
                  result  |-> [overall_stability |-> _calculate_stability(h2),
                               route_changes     |-> Len(h2) - 1,
                               current_route     |-> current_route[1],
                               status            |-> "online",
                               error             |-> PyNone]]
        ELSE [history |-> h,
              result  |-> [overall_stability |-> 0,
                           route_changes     |-> 0,
                           current_route     |-> "Unknown",
                           status            |-> "offline",
                           error             |-> "Failed to get route"]]

RouteStabilitySensor_get_dataMutDiffs(h, outcome) ==
    LET current_route == _get_route(outcome)
    IN  IF current_route # <<>> /\ current_route[1] # <<>>
        THEN LET h2 == TrimHistory(Append(h, current_route[1]))
             IN  [history |-> h2,
                  result  |-> [overall_stability |-> _calculate_stability(h2),
                               route_changes     |-> Len(h2) - 1
                                                       - CountMatches(h2, Last(h2), 1),
                               current_route     |-> current_route[1],
                               status            |-> "online",
                               error             |-> PyNone]]
        ELSE [history |-> h,
              result  |-> [overall_stability |-> 0,
                           route_changes     |-> 0,
                           current_route     |-> "Unknown",
                           status            |-> "offline",
                           error             |-> "Failed to get route"]]

\* RouteStabilitySensor.get_data on a tracker whose history is h:
\* the new history and the returned dict.
RouteStabilitySensor_get_data(h, outcome) ==
    LET current_route == _get_route(outcome)
    IN  IF current_route # <<>> /\ current_route[1] # <<>>
        THEN LET h2 == TrimHistory(Append(h, current_route[1]))
             IN  [history |-> h2,
                  result  |-> [overall_stability |-> _calculate_stability(h2),
                               route_changes     |-> Len(h2) - 1,
                               current_route     |-> current_route[1],
                               status            |-> "online",
                               error             |-> PyNone]]
        ELSE [history |-> h,
              result  |-> [overall_stability |-> 0,
                           route_changes     |-> 0,
                           current_route     |-> "Unknown",
                           status            |-> "offline",
                           error             |-> "Failed to get route"]]

RouteInit ==
    /\ route_history = <<>>
    /\ route_result = [status |-> "none"]
    /\ trace_log = <<>>
    /\ last_trace = [kind |-> "none", hops |-> <<>>]

\* One invocation of get_data on the tracker.
RouteGetData ==
    \E outcome \in TraceOutcomes :
        LET r == RouteStabilitySensor_get_data(route_history, outcome)
        IN  /\ Len(trace_log) < MaxTraces
            /\ route_history' = r.history
            /\ route_result' = r.result
            /\ trace_log' = IF r.result.status = "online"
                            THEN Append(trace_log, r.result.current_route)
                            ELSE trace_log
            /\ last_trace' = outcome
            /\ UNCHANGED <<ipVars, dnsVars, cycleVars, fnVars, overlapVars>>

(***************************************************************************)
(* Address lookup: ip_info.py (providers, IPInfoManager) and               *)
(* isp_health.py, ISPHealthMonitor.get_ip_information                      *)
(***************************************************************************)

ProviderNames == {"ipinfo", "ipapi", "ipgeolocation"}

\* self.fallback_order
fallback_order == <<"ipapi", "ipinfo", "ipgeolocation">>

\* The total timeout of one provider's HTTP request, in seconds
\* (ClientTimeout(total=15) for ipinfo.io, timeout=10 for the other two).
RequestTimeout(p) == IF p = "ipinfo" THEN 15 ELSE 10

\* asyncio.wait_for(..., timeout=30) in get_ip_information
LookupCeiling == 30

Truthy(v) == v # PyNone /\ v # ""

\* float(s): the float a numeric string denotes, written "float:<digits>"
Float(s) == "float:" \o s

\* str.split(",") on the "loc" strings of the payloads below
SplitComma(s) ==
    CASE s = "40.71,-74.01" -> <<"40.71", "-74.01">>
      [] s = "40.71"        -> <<"40.71">>
      [] OTHER              -> <<s>>

\* dict.get(key, default)
GetOr(d, k, dflt) == IF k \in DOMAIN d THEN d[k] ELSE dflt

IPInfoIOProvider_normalize_data(raw_data) ==
    LET loc == SplitComma(GetOr(raw_data, "loc", ""))
        lat == IF Len(loc) = 2 THEN Float(loc[1]) ELSE PyNone
        lon == IF Len(loc) = 2 THEN Float(loc[2]) ELSE PyNone
    IN  [ip           |-> Get(raw_data, "ip"),
         hostname     |-> Get(raw_data, "hostname"),
         city         |-> Get(raw_data, "city"),
         region       |-> Get(raw_data, "region"),
         country      |-> Get(raw_data, "country"),
         latitude     |-> lat,
         longitude    |-> lon,
         organization |-> Get(raw_data, "org"),
         postal_code  |-> Get(raw_data, "postal"),
         timezone     |-> Get(raw_data, "timezone"),
         source       |-> "ipinfo.io",
         timestamp    |-> Now]

IPAPIProvider_normalize_data(raw_data) ==
    [ip           |-> Get(raw_data, "query"),
     hostname     |-> Get(raw_data, "reverse"),
     city         |-> Get(raw_data, "city"),
     region       |-> Get(raw_data, "regionName"),
     country      |-> Get(raw_data, "country"),
     latitude     |-> Get(raw_data, "lat"),
     longitude    |-> Get(raw_data, "lon"),
     organization |-> Get(raw_data, "isp"),
     postal_code  |-> Get(raw_data, "zip"),
     timezone     |-> Get(raw_data, "timezone"),
     source       |-> "ip-api.com",
     timestamp    |-> Now]

\* raw_data.get("time_zone", {}).get("name")
IPGeolocationProvider_normalize_data(raw_data) ==
    [ip           |-> Get(raw_data, "ip"),
     hostname     |-> Get(raw_data, "hostname"),
     city         |-> Get(raw_data, "city"),
     region       |-> Get(raw_data, "state_prov"),
     country      |-> Get(raw_data, "country_name"),
     latitude     |-> Get(raw_data, "latitude"),
     longitude    |-> Get(raw_data, "longitude"),
     organization |-> Get(raw_data, "organization"),
     postal_code  |-> Get(raw_data, "zipcode"),
     timezone     |-> IF "time_zone" \in DOMAIN raw_data
                      THEN Get(raw_data["time_zone"], "name") ELSE PyNone,
     source       |-> "ipgeolocation.io",
     timestamp    |-> Now]

normalize_data(p, raw_data) ==
    CASE p = "ipinfo" -> IPInfoIOProvider_normalize_data(raw_data)
      [] p = "ipapi"  -> IPAPIProvider_normalize_data(raw_data)
      [] OTHER        -> IPGeolocationProvider_normalize_data(raw_data)

\* JSON bodies the three services answer with (HTTP 200).
Payloads(p) ==
    CASE p = "ipinfo" ->
           { [ip |-> "203.0.113.7", city |-> "Lyon", region |-> "ARA", country |-> "FR",
              loc |-> "40.71,-74.01", org |-> "AS64500 ExampleNet", postal |-> "69001",
              timezone |-> "Europe/Paris"],
             [ip |-> "203.0.113.7", bogon |-> "true"] }
      [] p = "ipapi" ->
           { [status |-> "success", query |-> "203.0.113.7", city |-> "Lyon",
              regionName |-> "ARA", country |-> "France", lat |-> Float("40.71"),
              lon |-> Float("-74.01"), isp |-> "ExampleNet", zip |-> "69001",
              timezone |-> "Europe/Paris"],
             [status |-> "fail", message |-> "private range"] }
      [] OTHER ->
           { [ip |-> "203.0.113.7", city |-> "Lyon", state_prov |-> "ARA",
              country_name |-> "France", latitude |-> "40.71", longitude |-> "-74.01",
              organization |-> "ExampleNet", zipcode |-> "69001",
              time_zone |-> [name |-> "Europe/Paris"]] }

\* What one HTTP request to provider p can do: answer 200 with a body, answer
\* another status, or hit its timeout; secs is how long it took.
ProviderOutcomes(p) ==
    { [kind |-> "http200", body |-> b, secs |-> s] :
          b \in Payloads(p), s \in {0, RequestTimeout(p) - 1} }
      \cup { [kind |-> "http_error", body |-> <<>>, secs |-> 0],
             [kind |-> "timeout", body |-> <<>>, secs |-> RequestTimeout(p)] }

Raise(msg) == [raised |-> TRUE, error |-> msg]
Return(d)  == [raised |-> FALSE, data |-> d]

\* provider.get_ip_info() of the provider named p, holding the settings cfg.
\* str(asyncio.TimeoutError()) is the empty string; ipinfo.io re-raises it
\* as Exception("Request timed out").
Provider_get_ip_info(p, cfg, outcome) ==
    IF p = "ipgeolocation" /\ ~Truthy(cfg.api_key)
    THEN Raise("API key required for ipgeolocation.io")
    ELSE CASE outcome.kind = "http200" ->
                IF p = "ipapi" /\ Get(outcome.body, "status") # "success"
                THEN Raise("API error: " \o GetOr(outcome.body, "message", "Unknown error"))
                ELSE Return(normalize_data(p, outcome.body))
           [] outcome.kind = "http_error" -> Raise("HTTP 500: unavailable")
           [] OTHER -> IF p = "ipinfo" THEN Raise("Request timed out") ELSE Raise("")

_initialize_providersMutNoKeyCheck(config) ==
    [p \in DOMAIN config |-> config[p]]

\* IPInfoManager._initialize_providers: the providers dict
_initialize_providers(config) ==
    [p \in {q \in DOMAIN config :
                q = "ipgeolocation" => Truthy(config[q].api_key)} |-> config[p]]

RECURSIVE FallbackSources(_, _, _)
FallbackSources(providers, sources_to_try, i) ==
    IF i > Len(fallback_order) THEN sources_to_try
    ELSE LET source == fallback_order[i]
             inList == \E j \in 1..Len(sources_to_try) : sources_to_try[j] = source
         IN  FallbackSources(providers,
                 IF source \in DOMAIN providers /\ ~inList
                 THEN Append(sources_to_try, source) ELSE sources_to_try,
                 i + 1)

sources_to_tryMutFallbackFirst(providers, preferred_source) ==
    FallbackSources(providers, <<>>, 1)

\* the list get_ip_info builds before its loop
sources_to_try(providers, preferred_source) ==
    FallbackSources(providers,
        IF Truthy(preferred_source) /\ preferred_source \in DOMAIN providers
        THEN <<preferred_source>> ELSE <<>>,
        1)

\* the loop of get_ip_info over sources_to_try, from position i on: the
\* attempts made (with the time each took) and what the call returns or raises.
\* str(None) is "None".
RECURSIVE Try(_, _, _, _, _, _)
Try(providers, sources, outcomes, i, attempts, last_error) ==
    IF i > Len(sources)
    THEN [attempts |-> attempts, last_error |-> last_error,
          result |-> Raise("All IP info sources failed. Last error: "
                             \o (IF last_error = PyNone THEN "None" ELSE last_error))]
    ELSE LET source == sources[i]
             got == Provider_get_ip_info(source, providers[source], outcomes[source])
             att == Append(attempts, [source |-> source, secs |-> outcomes[source].secs])
         IN  IF got.raised
             THEN Try(providers, sources, outcomes, i + 1, att, got.error)
             ELSE [attempts |-> att, last_error |-> last_error, result |-> got]

\* IPInfoManager(config).get_ip_info(preferred_source)
IPInfoManager_get_ip_info(config, preferred_source, outcomes) ==
    LET providers == _initialize_providers(config)
    IN  Try(providers, sources_to_try(providers, preferred_source), outcomes, 1, <<>>, PyNone)

RECURSIVE SumSecs(_)
SumSecs(attempts) ==
    IF attempts = <<>> THEN 0 ELSE attempts[1].secs + SumSecs(Tail(attempts))

ErrorEntryMutOnline(msg) == [status |-> "online", error |-> msg, timestamp |-> Now]

\* the dict get_ip_information returns from its except clauses
ErrorEntry(msg) == [status |-> "error", error |-> msg, timestamp |-> Now]

get_ip_informationMutMock(config, ip_info_source, outcomes) ==
    LET run == IPInfoManager_get_ip_info(config, ip_info_source, outcomes)
    IN  IF run.result.raised
        THEN [ip |-> "192.168.1.1", source |-> "mock", status |-> "online", timestamp |-> Now]
        ELSE run.result.data

\* ISPHealthMonitor.get_ip_information: the lookup under the 30 s ceiling
ISPHealthMonitor_get_ip_information(config, ip_info_source, outcomes) ==
    LET run == IPInfoManager_get_ip_info(config, ip_info_source, outcomes)
    IN  IF SumSecs(run.attempts) > LookupCeiling THEN ErrorEntry("Request timed out")
        ELSE IF run.result.raised THEN ErrorEntry(run.result.error)
        ELSE run.result.data

(***************************************************************************)
(* DNS-server discovery: sensors.py, DNSConfigSensor                       *)
(***************************************************************************)

\* An address string is the sequence of its characters.
Digit(n) == <<"0", "1", "2", "3", "4", "5", "6", "7", "8", "9">>[n + 1]

RECURSIVE Dec(_)
Dec(n) == IF n < 10 THEN <<Digit(n)>> ELSE Dec(n \div 10) \o <<Digit(n % 10)>>

Ip4(a, b, c, d) == Dec(a) \o <<".">> \o Dec(b) \o <<".">> \o Dec(c) \o <<".">> \o Dec(d)

\* str.startswith
StartsWith(s, prefix) ==
    Len(prefix) <= Len(s) /\ SubSeq(s, 1, Len(prefix)) = prefix

container_networks ==
    { Ip4(127, 0, 0, 1), <<":", ":", "1">>,
      Dec(172) \o <<".">>,
      Dec(192) \o <<".">> \o Dec(168) \o <<".">>,
      Dec(10) \o <<".">>,
      Dec(169) \o <<".">> \o Dec(254) \o <<".">> }

_is_container_dnsMutNever(dns_ip) == FALSE

_is_container_dns(dns_ip) ==
    \E network \in container_networks : StartsWith(dns_ip, network)

FilterContainerMutKeep(l) == l

\* [dns for dns in detected_dns if not self._is_container_dns(dns)]
RECURSIVE FilterContainer(_)
FilterContainer(l) ==
    IF l = <<>> THEN <<>>
    ELSE IF ~_is_container_dns(l[1]) THEN <<l[1]>> \o FilterContainer(Tail(l))
    ELSE FilterContainer(Tail(l))

\* The addresses the environment may report, and the lists it reports them in.
Quad9      == Ip4(9, 9, 9, 9)
Cloudflare == Ip4(1, 1, 1, 1)
LanRouter  == Ip4(192, 168, 1, 1)
DockerGw   == Ip4(172, 17, 0, 1)

CandidateLists ==
    { <<>>, <<LanRouter>>, <<Quad9>>, <<DockerGw, Quad9, Cloudflare>> }

\* The environment of one discovery: the SUPERVISOR_TOKEN and the Supervisor's
\* answer, the exit of "nslookup host.docker.internal", the answers of the
\* first and second "ip route show default" (its default-via gateways), of
\* "systemd-resolve --status" (its DNS server lines) and /etc/resolv.conf
\* (its nameserver lines), and whether google.com resolves.
DnsEnvs ==
    [supervisor : { [kind |-> "no_token", servers |-> <<>>],
                    [kind |-> "failed", servers |-> <<>>] }
                    \cup { [kind |-> "http200", servers |-> l] : l \in CandidateLists },
     nslookup   : {"exit0", "nonzero", "timeout"},
     ip_route   : [1..2 -> { [kind |-> "nonzero", gateways |-> <<>>],
                             [kind |-> "exit0", gateways |-> <<LanRouter>>],
                             [kind |-> "exit0", gateways |-> <<Quad9>>] }],
     systemd    : { [kind |-> "nonzero", servers |-> <<>>] }
                    \cup { [kind |-> "exit0", servers |-> l] : l \in CandidateLists },
     resolv     : { [kind |-> "missing", servers |-> <<>>] }
                    \cup { [kind |-> "read", servers |-> l] : l \in CandidateLists },
     resolves   : BOOLEAN]

_get_supervisor_dns(env) ==
    IF env.supervisor.kind = "http200"
    THEN FilterContainer(env.supervisor.servers) ELSE <<>>

RECURSIVE FirstGateway(_)
FirstGateway(gateways) ==
    IF gateways = <<>> THEN <<>>
    ELSE IF ~_is_container_dns(gateways[1]) THEN <<gateways[1]>>
    ELSE FirstGateway(Tail(gateways))

\* _get_gateway_dns on the k-th "ip route show default" of this discovery
\* (a non-zero exit leaves "lines" unbound: the NameError is swallowed).
_get_gateway_dns(env, k) ==
    IF env.ip_route[k].kind = "exit0" THEN FirstGateway(env.ip_route[k].gateways) ELSE <<>>

\* _get_docker_host_dns: when "nslookup host.docker.internal" exits 0 it
\* returns what _get_gateway_dns returns (the k-th "ip route" query)
_get_docker_host_dns(env, k) ==
    IF env.nslookup = "exit0" THEN _get_gateway_dns(env, k) ELSE <<>>

_get_systemd_resolve_dns(env) ==
    IF env.systemd.kind = "exit0" THEN FilterContainer(env.systemd.servers) ELSE <<>>

_get_resolv_conf_dns(env) ==
    IF env.resolv.kind = "read" THEN FilterContainer(env.resolv.servers) ELSE <<>>

_get_common_dns_servers == <<Ip4(8, 8, 8, 8), Cloudflare, Quad9>>

methods ==
    << "_get_supervisor_dns", "_get_docker_host_dns", "_get_gateway_dns",
       "_get_systemd_resolve_dns", "_get_resolv_conf_dns", "_get_common_dns_servers" >>

\* await method(): what it returns, and the external queries it made
\* (n_route "ip route" queries were made before it).
CallMethod(method, env, n_route) ==
    CASE method = "_get_supervisor_dns" ->
           [detected |-> _get_supervisor_dns(env),
            queries  |-> IF env.supervisor.kind = "no_token" THEN <<>> ELSE <<"supervisor">>]
      [] method = "_get_docker_host_dns" ->
           [detected |-> _get_docker_host_dns(env, n_route + 1),
            queries  |-> IF env.nslookup = "exit0"
                         THEN <<"nslookup", "ip route">> ELSE <<"nslookup">>]
      [] method = "_get_gateway_dns" ->
           [detected |-> _get_gateway_dns(env, n_route + 1), queries |-> <<"ip route">>]
      [] method = "_get_systemd_resolve_dns" ->
           [detected |-> _get_systemd_resolve_dns(env), queries |-> <<"systemd-resolve">>]
      [] method = "_get_resolv_conf_dns" ->
           [detected |-> _get_resolv_conf_dns(env), queries |-> <<"resolv.conf">>]
      [] OTHER ->
           [detected |-> _get_common_dns_servers, queries |-> <<>>]

RECURSIVE CountOf(_, _)
CountOf(s, x) ==
    IF s = <<>> THEN 0 ELSE (IF s[1] = x THEN 1 ELSE 0) + CountOf(Tail(s), x)

PublicFallback(calls, queries) ==
    [dns_servers |-> <<Ip4(8, 8, 8, 8), Cloudflare>>, source_used |-> "public_fallback",
     calls |-> calls, queries |-> queries]

RECURSIVE DetectLoopMutNoBreak(_, _, _, _, _)
DetectLoopMutNoBreak(env, i, calls, queries, best) ==
    IF i > Len(methods)
    THEN IF best.dns_servers = <<>> THEN PublicFallback(calls, queries)
         ELSE [best EXCEPT !.calls = calls, !.queries = queries]
    ELSE LET m == CallMethod(methods[i], env, CountOf(queries, "ip route"))
             filtered_dns == FilterContainer(m.detected)
         IN  DetectLoopMutNoBreak(env, i + 1, Append(calls, methods[i]), queries \o m.queries,
                 IF filtered_dns # <<>>
                 THEN [best EXCEPT !.dns_servers = filtered_dns, !.source_used = methods[i]]
                 ELSE best)

RECURSIVE DetectLoopMutAbort(_, _, _, _, _)
DetectLoopMutAbort(env, i, calls, queries, best) ==
    IF i > Len(methods) THEN PublicFallback(calls, queries)
    ELSE LET m == CallMethod(methods[i], env, CountOf(queries, "ip route"))
             filtered_dns == FilterContainer(m.detected)
             calls2 == Append(calls, methods[i])
             queries2 == queries \o m.queries
         IN  IF m.detected # <<>> /\ filtered_dns # <<>>
             THEN [dns_servers |-> filtered_dns, source_used |-> methods[i],
                   calls |-> calls2, queries |-> queries2]
             ELSE IF m.detected = <<>> THEN PublicFallback(calls2, queries2)
             ELSE DetectLoopMutAbort(env, i + 1, calls2, queries2, best)

RECURSIVE DetectLoopMutFiveOnly(_, _, _, _, _)
DetectLoopMutFiveOnly(env, i, calls, queries, best) ==
    IF i > 5 THEN [best EXCEPT !.calls = calls, !.queries = queries]
    ELSE LET m == CallMethod(methods[i], env, CountOf(queries, "ip route"))
             filtered_dns == FilterContainer(m.detected)
         IN  IF filtered_dns # <<>>
             THEN [dns_servers |-> filtered_dns, source_used |-> methods[i],
                   calls |-> Append(calls, methods[i]), queries |-> queries \o m.queries]
             ELSE DetectLoopMutFiveOnly(env, i + 1, Append(calls, methods[i]),
                                        queries \o m.queries, best)

\* the "for method in methods" loop of _get_system_dns_servers from methods[i]
\* on, and the fallback after it: the servers, the source, the methods it
\* called and the external queries made.
RECURSIVE DetectLoop(_, _, _, _, _)
DetectLoop(env, i, calls, queries, best) ==
    IF i > Len(methods) THEN PublicFallback(calls, queries)
    ELSE LET m == CallMethod(methods[i], env, CountOf(queries, "ip route"))
             filtered_dns == FilterContainer(m.detected)
             calls2 == Append(calls, methods[i])
             queries2 == queries \o m.queries
         IN  IF m.detected # <<>> /\ filtered_dns # <<>>
             THEN [dns_servers |-> filtered_dns, source_used |-> methods[i],
                   calls |-> calls2, queries |-> queries2]
             ELSE DetectLoop(env, i + 1, calls2, queries2, best)

_get_system_dns_servers(env) ==
    DetectLoop(env, 1, <<>>, <<>>,
               [dns_servers |-> <<>>, source_used |-> "unknown", calls |-> <<>>, queries |-> <<>>])

_test_dns_resolution(env) == env.resolves

\* the placeholder texts of get_data, as character sequences like the addresses
Unknown  == <<"U", "n", "k", "n", "o", "w", "n">>
NoneText == <<"N", "o", "n", "e">>

DNSConfigSensor_get_dataMutDetection(env) ==
    LET found == _get_system_dns_servers(env)
        dns_servers == found.dns_servers
        resolution_test == _test_dns_resolution(env)
                             /\ found.source_used # "_get_common_dns_servers"
    IN  [primary_dns     |-> IF Len(dns_servers) > 0 THEN dns_servers[1] ELSE Unknown,
         secondary_dns   |-> IF Len(dns_servers) > 1 THEN dns_servers[2] ELSE NoneText,
         all_dns_servers |-> dns_servers,
         source          |-> found.source_used,
         status          |-> IF resolution_test THEN "online" ELSE "offline",
         error           |-> IF resolution_test THEN PyNone ELSE "DNS resolution failed"]

\* DNSConfigSensor.get_data
DNSConfigSensor_get_data(env) ==
    LET found == _get_system_dns_servers(env)
        dns_servers == found.dns_servers
        resolution_test == _test_dns_resolution(env)
    IN  [primary_dns     |-> IF Len(dns_servers) > 0 THEN dns_servers[1] ELSE Unknown,
         secondary_dns   |-> IF Len(dns_servers) > 1 THEN dns_servers[2] ELSE NoneText,
         all_dns_servers |-> dns_servers,
         source          |-> found.source_used,
         status          |-> IF resolution_test THEN "online" ELSE "offline",
         error           |-> IF resolution_test THEN PyNone ELSE "DNS resolution failed"]

(***************************************************************************)
(* Samplers and the other probes: sensors.py                               *)
(***************************************************************************)

\* count = self.config.get("count", ...): the settings dict has no "count"
LatencyCount    == 3
PacketLossCount == 10
JitterCount     == 10

\* What one "ping -c 1 -W 5 host" can do; ms is the time= value in hundredths
\* of a millisecond.
PingOutcomes ==
    { [kind |-> "exit0", ms |-> 1250], [kind |-> "exit0", ms |-> 3000],
      [kind |-> "nonzero", ms |-> 0], [kind |-> "timeout", ms |-> 0] }

_ping_hostMutZero(outcome) == <<outcome.ms>>

\* _ping_host: Optional[float]
_ping_host(outcome) == IF outcome.kind = "exit0" THEN <<outcome.ms>> ELSE <<>>

RECURSIVE SampleLoopMutBreak(_, _, _)
SampleLoopMutBreak(pings, i, latencies) ==
    IF i > Len(pings) THEN [latencies |-> latencies, issued |-> i - 1]
    ELSE IF _ping_host(pings[i]) = <<>> THEN [latencies |-> latencies, issued |-> i]
    ELSE SampleLoopMutBreak(pings, i + 1, latencies \o _ping_host(pings[i]))

\* "for _ in range(count): latency = await self._ping_host(target)" from the
\* i-th turn on: the latencies appended and the pings issued
RECURSIVE SampleLoop(_, _, _)
SampleLoop(pings, i, latencies) ==
    IF i > Len(pings) THEN [latencies |-> latencies, issued |-> i - 1]
    ELSE SampleLoop(pings, i + 1, latencies \o _ping_host(pings[i]))

\* latencies after the sampling loop over the pings of one invocation
Latencies(pings) == SampleLoop(pings, 1, <<>>).latencies

RECURSIVE Sum(_)
Sum(s) == IF s = <<>> THEN 0 ELSE s[1] + Sum(Tail(s))

RECURSIVE SumSq(_)
SumSq(s) == IF s = <<>> THEN 0 ELSE s[1] * s[1] + SumSq(Tail(s))

Min(s) == CHOOSE x \in {s[i] : i \in 1..Len(s)} : \A j \in 1..Len(s) : x <= s[j]
Max(s) == CHOOSE x \in {s[i] : i \in 1..Len(s)} : \A j \in 1..Len(s) : x >= s[j]

(***************************************************************************)
(* The same latency statistics in the arithmetic the interpreter uses: a    *)
(* Python float is an IEEE 754 binary64.  A number is a sequence of Width  *)
(* bits, most significant first, the last FracBits of them after the       *)
(* binary point; a float is such a number with at most Mantissa            *)
(* significant bits.  The sequences carry every float from 2^-7 up to      *)
(* 2^8 without loss.                                                       *)
(***************************************************************************)

Mantissa == 53
FracBits == 60
Width    == FracBits + 18

\* The exact operations work on the bits in groups of LimbBits.
LimbBits == 13
Limbs    == Width \div LimbBits
Base     == 2 ^ LimbBits

Zeros(n) == [i \in 1..n |-> 0]

\* the integer n in w bits
RECURSIVE BitsOf(_, _)
BitsOf(n, w) == IF w = 0 THEN <<>> ELSE Append(BitsOf(n \div 2, w - 1), n % 2)

\* the integer held by a sequence of bits
RECURSIVE IntOf(_)
IntOf(bits) ==
    IF bits = <<>> THEN 0
    ELSE 2 * IntOf(SubSeq(bits, 1, Len(bits) - 1)) + bits[Len(bits)]

ToLimbs(a) ==
    SubSeq([k \in 1..Limbs |-> IntOf(SubSeq(a, (k - 1) * LimbBits + 1, k * LimbBits))],
           1, Limbs)

RECURSIVE FromLimbs(_)
FromLimbs(l) ==
    IF l = <<>> THEN <<>> ELSE BitsOf(Head(l), LimbBits) \o FromLimbs(Tail(l))

\* a + b, exactly; carry[k] is what the limbs after the k-th carry into it
ExactAdd(a, b) ==
    LET x == ToLimbs(a)
        y == ToLimbs(b)
        carry[k \in 1..(Limbs + 1)] ==
            IF k = Limbs + 1 THEN 0 ELSE (x[k] + y[k] + carry[k + 1]) \div Base
    IN  FromLimbs(SubSeq([k \in 1..Limbs |-> (x[k] + y[k] + carry[k + 1]) % Base], 1, Limbs))

\* a * c for a small integer c, exactly
ExactMul(a, c) ==
    LET x == ToLimbs(a)
        carry[k \in 1..(Limbs + 1)] ==
            IF k = Limbs + 1 THEN 0 ELSE (x[k] * c + carry[k + 1]) \div Base
    IN  FromLimbs(SubSeq([k \in 1..Limbs |-> (x[k] * c + carry[k + 1]) % Base], 1, Limbs))

\* a / n for a small integer n by long division: the quotient cut after
\* FracBits and what is left; rem[k] is what is left after the k-th limb
ExactDiv(a, n) ==
    LET x == ToLimbs(a)
        rem[k \in 0..Limbs] ==
            IF k = 0 THEN 0 ELSE (Base * rem[k - 1] + x[k]) % n
    IN  [q |-> FromLimbs(SubSeq([k \in 1..Limbs |-> (Base * rem[k - 1] + x[k]) \div n],
                                1, Limbs)),
         r |-> rem[Limbs]]

\* position of the leading 1 of a, 0 when a is zero
Leading(a) ==
    IF \E i \in 1..Width : a[i] = 1
    THEN CHOOSE i \in 1..Width : a[i] = 1 /\ \A j \in 1..(i - 1) : a[j] = 0
    ELSE 0

\* IEEE 754 round-to-nearest, ties to even, of a (and of a little more than a
\* when sticky) to Mantissa significant bits
RoundNearestEven(a, sticky) ==
    LET last == Leading(a) + Mantissa - 1
    IN  IF Leading(a) = 0 \/ last >= Width THEN a
        ELSE LET kept == SubSeq(a, 1, last) \o Zeros(Width - last)
                 ulp  == Zeros(last - 1) \o <<1>> \o Zeros(Width - last)
                 more == sticky \/ \E i \in (last + 2)..Width : a[i] = 1
                 up   == a[last + 1] = 1 /\ (more \/ a[last] = 1)
             IN  IF up THEN ExactAdd(kept, ulp) ELSE kept

\* float(time_part) for the text of k thousandths: "0.225" is k = 225
float_time_part(k) ==
    LET d == ExactDiv(BitsOf(k, Width - FracBits) \o Zeros(FracBits), 1000)
    IN  RoundNearestEven(d.q, d.r # 0)

\* x + y of two floats
float_add(x, y) == RoundNearestEven(ExactAdd(x, y), FALSE)

\* x / n of a float by len(latencies)
float_truediv(x, n) ==
    LET d == ExactDiv(x, n)
    IN  RoundNearestEven(d.q, d.r # 0)

\* x < y
float_lt(x, y) ==
    \E i \in 1..Width : x[i] < y[i] /\ \A j \in 1..(i - 1) : x[j] = y[j]

\* round(x, 2), in hundredths: the exact value of the float to the nearest
\* hundredth, ties to even
round_2(x) ==
    LET m    == ExactMul(x, 100)
        int  == IntOf(SubSeq(m, 1, Width - FracBits))
        half == m[Width - FracBits + 1] = 1
        more == \E i \in (Width - FracBits + 2)..Width : m[i] = 1
    IN  IF half /\ (more \/ int % 2 = 1) THEN int + 1 ELSE int

\* sum(latencies) of the builtin that adds from left to right, from the i-th on
RECURSIVE float_sum(_, _, _)
float_sum(latencies, i, acc) ==
    IF i > Len(latencies) THEN acc
    ELSE float_sum(latencies, i + 1, float_add(acc, latencies[i]))

float_min(latencies) ==
    CHOOSE x \in {latencies[i] : i \in 1..Len(latencies)} :
        \A j \in 1..Len(latencies) : ~float_lt(latencies[j], x)

float_max(latencies) ==
    CHOOSE x \in {latencies[i] : i \in 1..Len(latencies)} :
        \A j \in 1..Len(latencies) : ~float_lt(x, latencies[j])

\* LatencySensor.get_data when the pings answered in times[1], times[2], ...
\* thousandths of a millisecond; its numbers are in hundredths
LatencySensor_get_data_float(times) ==
    LET latencies   == [i \in 1..Len(times) |-> float_time_part(times[i])]
        avg_latency == float_truediv(float_sum(latencies, 1, Zeros(Width)), Len(latencies))
    IN  IF times # <<>>
        THEN [average |-> round_2(avg_latency),
              min     |-> round_2(float_min(latencies)),
              max     |-> round_2(float_max(latencies)),
              status  |-> "online",
              error   |-> PyNone]
        ELSE [average |-> 0, min |-> 0, max |-> 0,
              status  |-> "offline",
              error   |-> "All ping attempts failed"]

LatencySensor_get_data(pings) ==
    LET latencies == Latencies(pings)
    IN  IF latencies # <<>>
        THEN [average |-> RoundDiv(Sum(latencies), Len(latencies)),
              min     |-> Min(latencies),
              max     |-> Max(latencies),
              status  |-> "online",
              error   |-> PyNone]
        ELSE [average |-> 0, min |-> 0, max |-> 0,
              status  |-> "offline",
              error   |-> "All ping attempts failed"]

PacketLossSensor_get_dataMutAbove(pings) ==
    LET count == Len(pings)
        successful_pings == Len(Latencies(pings))
    IN  [average |-> Round2((count - successful_pings) * 100, count),
         status  |-> IF (count - successful_pings) * 100 <= 50 * count
                     THEN "online" ELSE "offline",
         error   |-> PyNone]

PacketLossSensor_get_data(pings) ==
    LET count == Len(pings)
        successful_pings == Len(Latencies(pings))
    IN  [average |-> Round2((count - successful_pings) * 100, count),
         status  |-> IF (count - successful_pings) * 100 < 50 * count
                     THEN "online" ELSE "offline",
         error   |-> PyNone]

\* the integer nearest to sqrt(d) / n, for integers d >= 0, n > 0, at most hi
RoundSqrtDiv(d, n, hi) ==
    CHOOSE j \in 0..hi :
        /\ (2 * j + 1) * (2 * j + 1) * n * n > 4 * d
        /\ (j = 0 \/ (2 * j - 1) * (2 * j - 1) * n * n <= 4 * d)

JitterSensor_get_dataMutOne(pings) ==
    LET latencies == Latencies(pings)
        n == Len(latencies)
    IN  IF n < 1
        THEN [average |-> 0, status |-> "offline",
              error |-> "Insufficient data for jitter calculation"]
        ELSE [average |-> RoundSqrtDiv(n * SumSq(latencies) - Sum(latencies) * Sum(latencies),
                                         n, Max(latencies)),
              status  |-> "online",
              error   |-> PyNone]

\* the population standard deviation: sqrt(sum((x - mean)^2) / n)
\*   = sqrt(n * sum(x^2) - sum(x)^2) / n
JitterSensor_get_data(pings) ==
    LET latencies == Latencies(pings)
        n == Len(latencies)
    IN  IF n < 2
        THEN [average |-> 0, status |-> "offline",
              error |-> "Insufficient data for jitter calculation"]
        ELSE [average |-> RoundSqrtDiv(n * SumSq(latencies) - Sum(latencies) * Sum(latencies),
                                         n, Max(latencies)),
              status  |-> "online",
              error   |-> PyNone]

\* What _run_speedtest can do: give the results dict (bits per second, ms in
\* hundredths) or fail (it then returns None).  round(bps / 1000000, 2) in
\* hundredths is bps / 10000 rounded.
SpeedtestOutcomes ==
    { [kind |-> "results", download |-> 94321000, upload |-> 18765000, ping |-> 1234],
      [kind |-> "failed", download |-> 0, upload |-> 0, ping |-> 0] }

ThroughputSensor_get_data(outcome) ==
    IF outcome.kind = "results"
    THEN [download_mbps |-> RoundDiv(outcome.download, 10000),
          upload_mbps   |-> RoundDiv(outcome.upload, 10000),
          ping          |-> outcome.ping,
          status        |-> "online",
          error         |-> PyNone]
    ELSE [download_mbps |-> 0, upload_mbps |-> 0, ping |-> 0,
          status        |-> "offline",
          error         |-> "Speedtest failed"]

test_domains == <<"google.com", "cloudflare.com", "github.com">>

\* answers[i]: whether the query for test_domains[i] resolved
DNSReliabilitySensor_get_data(answers) ==
    LET total_queries == Len(test_domains)
        successful_queries == Cardinality({i \in 1..total_queries : answers[i]})
    IN  [overall_success_rate |-> Round2(successful_queries * 100, total_queries),
         successful_queries   |-> successful_queries,
         total_queries        |-> total_queries,
         status               |-> IF successful_queries * 100 > 50 * total_queries
                                  THEN "online" ELSE "offline",
         error                |-> PyNone]

(***************************************************************************)
(* The refresh cycle: coordinator.py, _async_update_data, and              *)
(* isp_health.py, ISPHealthMonitor                                         *)
(***************************************************************************)

\* the order in which _initialize_sensors fills self.sensors
SensorNames ==
    << "dns_config", "latency", "packet_loss", "jitter", "throughput",
       "dns_reliability", "route_stability" >>

SensorSet == {SensorNames[i] : i \in 1..Len(SensorNames)}

\* How many sensors an entry enables at most.
MaxEnabled == 3

\* How many consecutive cycles with a successful trace are followed.
MaxStreak == 3

default_update_interval == 60

\* entry.data as the setup form stores it: the address source and token, the
\* sensors that are enabled, and the route_stability interval (the form
\* accepts 300..7200 seconds); the other intervals are the form's defaults.
Entries ==
    { [ip_info_source |-> src, ip_info_token |-> tok, enabled |-> en,
       route_stability_interval |-> iv] :
          src \in ProviderNames, tok \in {"", "tok"},
          en \in {e \in SUBSET SensorSet : Cardinality(e) <= MaxEnabled},
          iv \in {1800, 7200} }

default_intervals(sensor_type) ==
    CASE sensor_type = "packet_loss"     -> 120
      [] sensor_type = "jitter"          -> 120
      [] sensor_type = "throughput"      -> 3600
      [] sensor_type = "dns_reliability" -> 180
      [] sensor_type = "route_stability" -> 1800
      [] OTHER                           -> 60

\* _create_config_from_entry
_create_config_from_entry(e) ==
    [update_interval |-> default_update_interval,
     ip_info_source  |-> e.ip_info_source,
     ip_info_config  |->
        [p \in ProviderNames |->
            IF p = "ipgeolocation"
            THEN [token |-> PyNone,
                  api_key |-> IF e.ip_info_source = p THEN e.ip_info_token ELSE ""]
            ELSE [token |-> IF e.ip_info_source = p THEN e.ip_info_token ELSE "",
                  api_key |-> PyNone]],
     sensors |->
        [s \in SensorSet \cup {"ip_info"} |->
            [enabled  |-> s = "ip_info" \/ s \in e.enabled,
             interval |-> IF s = "route_stability" THEN e.route_stability_interval
                          ELSE default_intervals(s)]]]

\* the Field(ge=..., le=...) of the interval of each settings class
IntervalMin(sensor_type) == IF sensor_type = "throughput" THEN 3600 ELSE 30
IntervalMax(sensor_type) == IF sensor_type = "throughput" THEN 86400 ELSE 3600

\* Config(**config_data) passes validation
ConfigValid(config_data) ==
    /\ config_data.update_interval >= 30
    /\ config_data.update_interval <= 600
    /\ \A s \in DOMAIN config_data.sensors :
          /\ config_data.sensors[s].interval >= IntervalMin(s)
          /\ config_data.sensors[s].interval <= IntervalMax(s)

RECURSIVE EnabledFrom(_, _)
EnabledFrom(config, i) ==
    IF i > Len(SensorNames) THEN <<>>
    ELSE (IF config.sensors[SensorNames[i]].enabled THEN <<SensorNames[i]>> ELSE <<>>)
             \o EnabledFrom(config, i + 1)

_initialize_sensorsMutDropLast(config) ==
    LET enabled == EnabledFrom(config, 1)
    IN  IF enabled = <<>> THEN enabled ELSE SubSeq(enabled, 1, Len(enabled) - 1)

\* ISPHealthMonitor._initialize_sensors: the keys of self.sensors, in order
_initialize_sensors(config) == EnabledFrom(config, 1)

\* _get_mock_data()["sensors"] (nested result lists left out)
MockSensors ==
    [ip_info |-> [ip |-> "192.168.1.1", hostname |-> "mock.example.com",
                  city |-> "Test City", region |-> "Test Region", country |-> "US",
                  organization |-> "Test ISP", postal_code |-> "10001",
                  timezone |-> "America/New_York", source |-> "mock",
                  status |-> "online", timestamp |-> Now],
     dns_config |-> [primary_dns |-> Ip4(8, 8, 8, 8), secondary_dns |-> Ip4(8, 8, 4, 4),
                     status |-> "online", timestamp |-> Now],
     latency |-> [average |-> 2550, minimum |-> 2010, maximum |-> 3090,
                  status |-> "online", timestamp |-> Now],
     packet_loss |-> [average |-> 0, minimum |-> 0, maximum |-> 0,
                      status |-> "online", timestamp |-> Now],
     jitter |-> [average |-> 520, minimum |-> 310, maximum |-> 780,
                 status |-> "online", timestamp |-> Now],
     throughput |-> [download_mbps |-> 10000, upload_mbps |-> 2000,
                     test_type |-> "single_server",
                     status |-> "online", timestamp |-> Now],
     dns_reliability |-> [overall_success_rate |-> 10000, average_response_time |-> 1550,
                          status |-> "online", timestamp |-> Now],
     route_stability |-> [overall_stability |-> 100, total_route_changes |-> 0,
                          average_hop_count |-> 1200,
                          status |-> "online", timestamp |-> Now]]

Wrap(sensor_data) ==
    [sensors |-> sensor_data, last_update |-> Now,
     update_interval |-> default_update_interval]

_get_mock_dataMutEnabled ==
    Wrap([s \in entry.enabled \cup {"ip_info"} |-> MockSensors[s]])

\* _get_mock_data()
_get_mock_data == Wrap(MockSensors)

\* What the environment does to the probes of one cycle.
CycleProviderOutcomes ==
    [ProviderNames -> {"http200", "timeout"}]

ProviderOutcomeOf(p, kind) ==
    CHOOSE o \in ProviderOutcomes(p) :
        /\ o.kind = kind
        /\ o.kind = "http200" => o.secs = 0 /\ Get(o.body, "bogon") = PyNone
                                            /\ Get(o.body, "status") # "fail"

CycleDnsEnvs ==
    { [supervisor |-> [kind |-> "no_token", servers |-> <<>>],
       nslookup   |-> "nonzero",
       ip_route   |-> [k \in 1..2 |-> [kind |-> "nonzero", gateways |-> <<>>]],
       systemd    |-> [kind |-> "nonzero", servers |-> <<>>],
       resolv     |-> rc,
       resolves   |-> ok] :
          rc \in { [kind |-> "missing", servers |-> <<>>],
                   [kind |-> "read", servers |-> <<LanRouter, Quad9>>] },
          ok \in BOOLEAN }

\* pings of one invocation: the first "good" ones answer, the others do not
CyclePings(count) ==
    { [i \in 1..count |-> IF i <= good
                          THEN [kind |-> "exit0", ms |-> 1250]
                          ELSE [kind |-> "timeout", ms |-> 0]] : good \in {0, 1, count} }

CycleOutcomes(sensor) ==
    CASE sensor = "dns_config"      -> CycleDnsEnvs
      [] sensor = "latency"         -> CyclePings(LatencyCount)
      [] sensor = "packet_loss"     -> CyclePings(PacketLossCount)
      [] sensor = "jitter"          -> CyclePings(JitterCount)
      [] sensor = "throughput"      -> SpeedtestOutcomes
      [] sensor = "dns_reliability" -> {[i \in 1..3 |-> i <= good] : good \in {0, 3}}
      [] OTHER                      -> TraceOutcomes

\* await sensor.get_data() for the sensor named so: the returned dict, and the
\* route history after it (only the route_stability sensor has one).
Sensor_get_data(sensor, outcome, h) ==
    CASE sensor = "dns_config"      -> [result |-> DNSConfigSensor_get_data(outcome), history |-> h]
      [] sensor = "latency"         -> [result |-> LatencySensor_get_data(outcome), history |-> h]
      [] sensor = "packet_loss"     -> [result |-> PacketLossSensor_get_data(outcome), history |-> h]
      [] sensor = "jitter"          -> [result |-> JitterSensor_get_data(outcome), history |-> h]
      [] sensor = "throughput"      -> [result |-> ThroughputSensor_get_data(outcome), history |-> h]
      [] sensor = "dns_reliability" -> [result |-> DNSReliabilitySensor_get_data(outcome), history |-> h]
      [] OTHER                      -> RouteStabilitySensor_get_data(h, outcome)

CycleInit ==
    /\ entry \in Entries
    /\ pc = "idle"
    /\ todo = <<>>
    /\ results = EmptyDict
    /\ probe_log = <<>>
    /\ data = EmptyDict
    /\ streak = 0

CycleStartMutNoLookup ==
    /\ pc \in {"idle", "done"}
    /\ streak < MaxStreak
    /\ LET config_data == _create_config_from_entry(entry)
       IN  IF ConfigValid(config_data)
           THEN /\ pc' = "sensors"
                /\ todo' = _initialize_sensors(config_data)
                /\ results' = EmptyDict
                /\ probe_log' = <<>>
                /\ route_history' = <<>>
                /\ data' = EmptyDict
                /\ UNCHANGED streak
           ELSE /\ pc' = "done"
                /\ data' = _get_mock_data
                /\ streak' = 0
                /\ UNCHANGED <<todo, results, probe_log, route_history>>
    /\ UNCHANGED <<entry, route_result, trace_log, last_trace, ipVars, dnsVars, fnVars, overlapVars>>

\* _async_update_data up to its first await: the configuration is built and
\* validated, a monitor with new sensors is constructed, get_all_sensor_data
\* begins.  A validation error is caught and answered with the mock data.
CycleStart ==
    /\ pc \in {"idle", "done"}
    /\ streak < MaxStreak
    /\ LET config_data == _create_config_from_entry(entry)
       IN  IF ConfigValid(config_data)
           THEN /\ pc' = "ip_info"
                /\ todo' = _initialize_sensors(config_data)
                /\ results' = EmptyDict
                /\ probe_log' = <<>>
                /\ route_history' = <<>>
                /\ data' = EmptyDict
                /\ UNCHANGED streak
           ELSE /\ pc' = "done"
                /\ data' = _get_mock_data
                /\ streak' = 0
                /\ UNCHANGED <<todo, results, probe_log, route_history>>
    /\ UNCHANGED <<entry, route_result, trace_log, last_trace, ipVars, dnsVars, fnVars, overlapVars>>

CycleIpInfoMutAbort ==
    /\ pc = "ip_info"
    /\ \E kinds \in CycleProviderOutcomes :
          LET config_data == _create_config_from_entry(entry)
              outcomes == [p \in ProviderNames |-> ProviderOutcomeOf(p, kinds[p])]
              r == ISPHealthMonitor_get_ip_information(
                       config_data.ip_info_config, config_data.ip_info_source, outcomes)
          IN  /\ results' = Put(results, "ip_info", r)
              /\ todo' = IF Get(r, "error") = "Request timed out" THEN <<>> ELSE todo
    /\ pc' = "sensors"
    /\ UNCHANGED <<entry, probe_log, data, streak, routeVars, ipVars, dnsVars, fnVars, overlapVars>>

\* results["ip_info"] = await self.get_ip_information()
CycleIpInfo ==
    /\ pc = "ip_info"
    /\ \E kinds \in CycleProviderOutcomes :
          LET config_data == _create_config_from_entry(entry)
              outcomes == [p \in ProviderNames |-> ProviderOutcomeOf(p, kinds[p])]
          IN  results' = Put(results, "ip_info",
                             ISPHealthMonitor_get_ip_information(
                                 config_data.ip_info_config, config_data.ip_info_source,
                                 outcomes))
    /\ pc' = "sensors"
    /\ UNCHANGED <<entry, todo, probe_log, data, streak, routeVars, ipVars, dnsVars, fnVars, overlapVars>>

\* one turn of the loop of get_all_sensor_data: get_data returns
CycleSensorReturns ==
    /\ pc = "sensors"
    /\ todo # <<>>
    /\ LET sensor_name == Head(todo)
       IN  \E outcome \in CycleOutcomes(sensor_name) :
              LET r == Sensor_get_data(sensor_name, outcome, route_history)
              IN  /\ results' = Put(results, sensor_name, r.result)
                  /\ route_history' = r.history
                  /\ probe_log' = Append(probe_log,
                                      [sensor |-> sensor_name, raised |-> FALSE,
                                       returned |-> r.result])
                  /\ streak' = IF sensor_name = "route_stability"
                               THEN (IF r.result.status = "online" THEN streak + 1 ELSE 0)
                               ELSE streak
    /\ todo' = Tail(todo)
    /\ UNCHANGED <<entry, pc, data, route_result, trace_log, last_trace, ipVars, dnsVars, fnVars, overlapVars>>

SensorFailure == "sensor failure"

CycleSensorRaisesMutAbort ==
    /\ pc = "sensors"
    /\ todo # <<>>
    /\ LET sensor_name == Head(todo)
       IN  /\ results' = Put(results, sensor_name,
                             [status |-> "error", error |-> SensorFailure])
           /\ probe_log' = Append(probe_log,
                               [sensor |-> sensor_name, raised |-> TRUE,
                                returned |-> EmptyDict])
           /\ streak' = IF sensor_name = "route_stability" THEN 0 ELSE streak
    /\ todo' = <<>>
    /\ UNCHANGED <<entry, pc, data, routeVars, ipVars, dnsVars, fnVars, overlapVars>>

\* one turn of the loop of get_all_sensor_data: get_data raises, the except
\* clause of the loop records it
CycleSensorRaises ==
    /\ pc = "sensors"
    /\ todo # <<>>
    /\ LET sensor_name == Head(todo)
       IN  /\ results' = Put(results, sensor_name,
                             [status |-> "error", error |-> SensorFailure])
           /\ probe_log' = Append(probe_log,
                               [sensor |-> sensor_name, raised |-> TRUE,
                                returned |-> EmptyDict])
           /\ streak' = IF sensor_name = "route_stability" THEN 0 ELSE streak
    /\ todo' = Tail(todo)
    /\ UNCHANGED <<entry, pc, data, routeVars, ipVars, dnsVars, fnVars, overlapVars>>

\* The timeout, in seconds, that cuts off the external call a sensor's
\* get_data awaits (asyncio.wait_for, or the resolver's lifetime); 0 where the
\* call is awaited with none: run_in_executor(None, self._run_speedtest).
CallTimeout(sensor) ==
    CASE sensor = "throughput"      -> 0
      [] sensor = "dns_reliability" -> 5
      [] sensor = "route_stability" -> 30
      [] OTHER                      -> 10

\* one turn of the loop of get_all_sensor_data: the call get_data awaits
\* never completes and nothing cuts it off, the cycle stays suspended in it
CycleSensorSuspends ==
    /\ pc = "sensors"
    /\ todo # <<>>
    /\ CallTimeout(Head(todo)) = 0
    /\ pc' = "suspended"
    /\ UNCHANGED <<entry, todo, results, probe_log, data, streak, routeVars, ipVars, dnsVars, fnVars, overlapVars>>

\* get_all_sensor_data returns; _async_update_data wraps and returns
CycleReturn ==
    /\ pc = "sensors"
    /\ todo = <<>>
    /\ data' = Wrap(results)
    /\ pc' = "done"
    /\ UNCHANGED <<entry, todo, results, probe_log, streak, routeVars, ipVars, dnsVars, fnVars, overlapVars>>

(***************************************************************************)
(* One address lookup and one DNS discovery at a time                      *)
(***************************************************************************)

\* The config dicts an IPInfoManager may be constructed with.
IpConfigs ==
    UNION { [d -> {[token |-> "", api_key |-> PyNone],
                   [token |-> PyNone, api_key |-> ""],
                   [token |-> PyNone, api_key |-> "key"]}] : d \in SUBSET ProviderNames }

PreferredSources == ProviderNames \cup {PyNone, "unknown"}

IpIdle ==
    /\ ip_in = [config |-> EmptyDict]
    /\ ip_out = [done |-> FALSE]

\* The manager's config, the preferred source and what each provider's
\* service will do are given; no lookup was made yet.
IpInit ==
    /\ \E config \in IpConfigs, preferred \in PreferredSources,
          o1 \in ProviderOutcomes("ipinfo"), o2 \in ProviderOutcomes("ipapi"),
          o3 \in ProviderOutcomes("ipgeolocation") :
          ip_in = [config |-> config, preferred |-> preferred,
                   outcomes |-> [p \in ProviderNames |->
                              IF p = "ipinfo" THEN o1 ELSE IF p = "ipapi" THEN o2 ELSE o3]]
    /\ ip_out = [done |-> FALSE]

\* One call of ISPHealthMonitor.get_ip_information, and with it of
\* IPInfoManager.get_ip_info.
IpLookup ==
    /\ ~ip_out.done
    /\ LET run == IPInfoManager_get_ip_info(ip_in.config, ip_in.preferred, ip_in.outcomes)
       IN  ip_out' = [done |-> TRUE, attempts |-> run.attempts,
                      last_error |-> run.last_error, result |-> run.result,
                      entry |-> ISPHealthMonitor_get_ip_information(
                                    ip_in.config, ip_in.preferred, ip_in.outcomes)]
    /\ UNCHANGED <<ip_in, routeVars, dnsVars, cycleVars, fnVars, overlapVars>>

DnsIdle ==
    /\ dns_in = [resolves |-> FALSE]
    /\ dns_out = [done |-> FALSE]

\* The environment of the discovery is given; no discovery was made yet.
DnsInit ==
    /\ dns_in \in DnsEnvs
    /\ dns_out = [done |-> FALSE]

\* One call of DNSConfigSensor.get_data, and with it of _get_system_dns_servers.
DnsDiscover ==
    /\ ~dns_out.done
    /\ LET found == _get_system_dns_servers(dns_in)
       IN  dns_out' = [done |-> TRUE, dns_servers |-> found.dns_servers,
                       source_used |-> found.source_used, calls |-> found.calls,
                       queries |-> found.queries,
                       result |-> DNSConfigSensor_get_data(dns_in)]
    /\ UNCHANGED <<dns_in, routeVars, ipVars, cycleVars, fnVars, overlapVars>>

\* no function is applied on its own
FnIdle ==
    /\ fn_in = [fn |-> "none"]
    /\ fn_out = [done |-> FALSE]

\* The addresses the exclusion predicate is applied to on its own: dotted
\* quads around the borders of the internal blocks, and the IPv6 loopback.
FirstOctets  == {1, 8, 10, 17, 100, 127, 169, 172, 192}
SecondOctets == {0, 15, 16, 17, 31, 32, 168, 254}

FilterAddrs ==
    { [fn |-> "_is_container_dns", octets |-> <<a, b, c, d>>, text |-> Ip4(a, b, c, d)] :
          a \in FirstOctets, b \in SecondOctets, c \in {0, 1}, d \in {1, 53} }
      \cup { [fn |-> "_is_container_dns", octets |-> <<>>, text |-> <<":", ":", "1">>] }

FilterInit ==
    /\ fn_in \in FilterAddrs
    /\ fn_out = [done |-> FALSE]

\* One call of _is_container_dns.
FilterApply ==
    /\ fn_in.fn = "_is_container_dns"
    /\ ~fn_out.done
    /\ fn_out' = [done |-> TRUE, excluded |-> _is_container_dns(fn_in.text)]
    /\ UNCHANGED <<fn_in, routeVars, ipVars, dnsVars, cycleVars, overlapVars>>

\* How many pings one invocation of a sampler issues at most (its "count").
MaxSamples == 4

\* what the pings of one invocation do, for every count from 1 on
SamplePings == UNION { [1..k -> PingOutcomes] : k \in 1..MaxSamples }

\* The samplers applied on their own: the same ping outcomes are given to the
\* latency, the packet-loss and the jitter sensor.
SampleInit ==
    /\ \E pings \in SamplePings : fn_in = [fn |-> "samplers", pings |-> pings]
    /\ fn_out = EmptyDict

\* One call of LatencySensor.get_data.
SampleLatency ==
    /\ fn_in.fn = "samplers"
    /\ "latency" \notin DOMAIN fn_out
    /\ fn_out' = Put(Put(fn_out, "latency", LatencySensor_get_data(fn_in.pings)),
                     "latency_pings", SampleLoop(fn_in.pings, 1, <<>>).issued)
    /\ UNCHANGED <<fn_in, routeVars, ipVars, dnsVars, cycleVars, overlapVars>>

\* One call of PacketLossSensor.get_data.
SamplePacketLoss ==
    /\ fn_in.fn = "samplers"
    /\ "packet_loss" \notin DOMAIN fn_out
    /\ fn_out' = Put(Put(fn_out, "packet_loss", PacketLossSensor_get_data(fn_in.pings)),
                     "packet_loss_pings", SampleLoop(fn_in.pings, 1, <<>>).issued)
    /\ UNCHANGED <<fn_in, routeVars, ipVars, dnsVars, cycleVars, overlapVars>>

\* One call of JitterSensor.get_data.
SampleJitter ==
    /\ fn_in.fn = "samplers"
    /\ "jitter" \notin DOMAIN fn_out
    /\ fn_out' = Put(Put(fn_out, "jitter", JitterSensor_get_data(fn_in.pings)),
                     "jitter_pings", SampleLoop(fn_in.pings, 1, <<>>).issued)
    /\ UNCHANGED <<fn_in, routeVars, ipVars, dnsVars, cycleVars, overlapVars>>

\* time= values a ping prints, in thousandths of a millisecond: 0.225, 0.485,
\* 0.860, 1.05, 12.4 and 31.3 ms
PingTimes == {225, 485, 860, 1050, 12400, 31300}

\* The latency sensor on its own in the interpreter's arithmetic: its count of
\* pings all answer, in every order of every choice of times.
FloatInit ==
    /\ \E times \in [1..LatencyCount -> PingTimes] :
          fn_in = [fn |-> "latency_float", times |-> times]
    /\ fn_out = EmptyDict

\* One call of LatencySensor.get_data.
SampleLatencyFloat ==
    /\ fn_in.fn = "latency_float"
    /\ "latency" \notin DOMAIN fn_out
    /\ fn_out' = Put(fn_out, "latency", LatencySensor_get_data_float(fn_in.times))
    /\ UNCHANGED <<fn_in, routeVars, ipVars, dnsVars, cycleVars, overlapVars>>

\* asyncio.get_event_loop().time() in the except clause of an accessor
LoopTime == "<loop time>"

ISPHealthMonitor_get_metricMutCall(sensors, name, call) ==
    IF name \in {sensors[i] : i \in 1..Len(sensors)} /\ ~call.raises
    THEN [result |-> Sensor_get_data(name, call.outcome, <<>>).result, probes |-> <<name>>]
    ELSE [result |-> [status |-> "error", error |-> SensorFailure, timestamp |-> LoopTime],
          probes |-> <<name>>]

\* ISPHealthMonitor.get_dns_configuration, get_latency, get_packet_loss,
\* get_jitter, get_throughput, get_dns_reliability and get_route_stability,
\* the one for the metric named so, on a monitor whose self.sensors has the
\* keys sensors: the returned dict and the sensors whose get_data was awaited
ISPHealthMonitor_get_metric(sensors, name, call) ==
    IF name \notin {sensors[i] : i \in 1..Len(sensors)}
    THEN [result |-> [status |-> "disabled"], probes |-> <<>>]
    ELSE IF call.raises
    THEN [result |-> [status |-> "error", error |-> SensorFailure, timestamp |-> LoopTime],
          probes |-> <<name>>]
    ELSE [result |-> Sensor_get_data(name, call.outcome, <<>>).result, probes |-> <<name>>]

\* A monitor is constructed for each choice of enabled sensors and one of its
\* accessors is about to be called.
AccessorInit ==
    /\ \E en \in {e \in SUBSET SensorSet : Cardinality(e) <= MaxEnabled}, name \in SensorSet :
          fn_in = [fn |-> "accessor", name |-> name,
                   sensors |-> _initialize_sensors(_create_config_from_entry(
                                   [ip_info_source |-> "ipapi", ip_info_token |-> "",
                                    enabled |-> en, route_stability_interval |-> 1800]))]
    /\ fn_out = [done |-> FALSE]

\* One call of the accessor; the sensor's get_data, when it is awaited,
\* returns or raises.
AccessorCall ==
    /\ fn_in.fn = "accessor"
    /\ ~fn_out.done
    /\ \E raises \in BOOLEAN, outcome \in CycleOutcomes(fn_in.name) :
          LET r == ISPHealthMonitor_get_metric(fn_in.sensors, fn_in.name,
                                               [raises |-> raises, outcome |-> outcome])
          IN  fn_out' = [done |-> TRUE, result |-> r.result, probes |-> r.probes]
    /\ UNCHANGED <<fn_in, routeVars, ipVars, dnsVars, cycleVars, overlapVars>>

\* The keys a JSON body of each service may carry besides its address key.
RawOptional(p) ==
    CASE p = "ipinfo" -> {"hostname", "city", "loc", "org", "postal", "timezone"}
      [] p = "ipapi"  -> {"reverse", "city", "lat", "isp", "zip", "timezone"}
      [] OTHER        -> {"hostname", "city", "latitude", "organization", "zipcode",
                          "time_zone"}

RawValue(key) ==
    CASE key = "loc"       -> "40.71,-74.01"
      [] key = "lat"       -> Float("40.71")
      [] key = "latitude"  -> "40.71"
      [] key = "time_zone" -> [name |-> "Europe/Paris"]
      [] key = "timezone"  -> "Europe/Paris"
      [] key \in {"ip", "query"} -> "203.0.113.7"
      [] OTHER             -> "some " \o key

\* the JSON bodies given to normalize_data of provider p
RawPayloads(p) ==
    { [key \in keys \cup {IF p = "ipapi" THEN "query" ELSE "ip"} |-> RawValue(key)] :
          keys \in SUBSET RawOptional(p) }

NormalizeInit ==
    /\ \E p \in ProviderNames : \E raw_data \in RawPayloads(p) :
          fn_in = [fn |-> "normalize_data", provider |-> p, raw_data |-> raw_data]
    /\ fn_out = [runs |-> 0]

\* normalize_data of the provider on the JSON body
Normalize ==
    /\ fn_in.fn = "normalize_data"
    /\ fn_out.runs = 0
    /\ fn_out' = [runs |-> 1, record |-> normalize_data(fn_in.provider, fn_in.raw_data)]
    /\ UNCHANGED <<fn_in, routeVars, ipVars, dnsVars, cycleVars, overlapVars>>

\* normalize_data of the same provider on the record it returned
NormalizeAgain ==
    /\ fn_in.fn = "normalize_data"
    /\ fn_out.runs = 1
    /\ fn_out' = [runs |-> 2, first |-> fn_out.record,
                  record |-> normalize_data(fn_in.provider, fn_out.record)]
    /\ UNCHANGED <<fn_in, routeVars, ipVars, dnsVars, cycleVars, overlapVars>>

\* How many refresh cycles are started while overlaps are followed.
MaxCycles == 3

\* no cycle was started, no sensor object constructed
OverlapIdle ==
    /\ heap = <<>>
    /\ cycles = <<>>

OverlapStartMutShared ==
    /\ Len(cycles) < MaxCycles
    /\ heap' = IF heap = <<>> THEN <<[route_history |-> <<>>, writers |-> {}]>> ELSE heap
    /\ cycles' = Append(cycles, [stage |-> "collecting", sensor |-> 1])
    /\ UNCHANGED <<routeVars, ipVars, dnsVars, cycleVars, fnVars>>

\* _async_update_data is entered, whether or not an earlier cycle has
\* settled: ISPHealthMonitor(config) constructs a new RouteStabilitySensor,
\* whose route_history is a new empty list.
OverlapStart ==
    /\ Len(cycles) < MaxCycles
    /\ heap' = Append(heap, [route_history |-> <<>>, writers |-> {}])
    /\ cycles' = Append(cycles, [stage |-> "collecting", sensor |-> Len(heap) + 1])
    /\ UNCHANGED <<routeVars, ipVars, dnsVars, cycleVars, fnVars>>

\* the get_data of cycle c's route sensor runs: the append and the eviction
\* are made on the history of the sensor object that cycle holds
OverlapTrace ==
    /\ \E c \in 1..Len(cycles) : \E outcome \in TraceOutcomes :
          LET obj == cycles[c].sensor
              r == RouteStabilitySensor_get_data(heap[obj].route_history, outcome)
          IN  /\ cycles[c].stage = "collecting"
              /\ heap' = [heap EXCEPT ![obj] =
                             [route_history |-> r.history,
                              writers |-> IF r.result.status = "online"
                                          THEN heap[obj].writers \cup {c}
                                          ELSE heap[obj].writers]]
              /\ cycles' = [cycles EXCEPT ![c].stage = "traced"]
    /\ UNCHANGED <<routeVars, ipVars, dnsVars, cycleVars, fnVars>>

\* cycle c returns its data; its monitor is dropped
OverlapReturn ==
    /\ \E c \in 1..Len(cycles) :
          /\ cycles[c].stage = "traced"
          /\ cycles' = [cycles EXCEPT ![c].stage = "returned"]
    /\ UNCHANGED <<heap, routeVars, ipVars, dnsVars, cycleVars, fnVars>>

CycleIdle ==
    /\ entry = [enabled |-> {}]
    /\ pc = "off"
    /\ todo = <<>>
    /\ results = EmptyDict
    /\ probe_log = <<>>
    /\ data = EmptyDict
    /\ streak = 0

(***************************************************************************)
(* Specifications                                                          *)
(***************************************************************************)

\* one tracker, get_data invoked again and again
InitRoute == RouteInit /\ IpIdle /\ DnsIdle /\ CycleIdle /\ FnIdle /\ OverlapIdle

SpecRoute == InitRoute /\ [][RouteGetData]_vars

\* address lookups
InitIP == RouteInit /\ IpInit /\ DnsIdle /\ CycleIdle /\ FnIdle /\ OverlapIdle

SpecIP == InitIP /\ [][IpLookup]_vars

\* DNS discoveries
InitDNS == RouteInit /\ IpIdle /\ DnsInit /\ CycleIdle /\ FnIdle /\ OverlapIdle

SpecDNS == InitDNS /\ [][DnsDiscover]_vars

\* the exclusion predicate on single addresses
InitFilter == RouteInit /\ IpIdle /\ DnsIdle /\ CycleIdle /\ FilterInit /\ OverlapIdle

SpecFilter == InitFilter /\ [][FilterApply]_vars

\* the samplers on given ping outcomes
InitSamples == RouteInit /\ IpIdle /\ DnsIdle /\ CycleIdle /\ SampleInit /\ OverlapIdle

NextSamples ==
    \/ SampleLatency
    \/ SamplePacketLoss
    \/ SampleJitter

SpecSamples == InitSamples /\ [][NextSamples]_vars

\* The latency sensor alone, computed in binary64.
InitLatencyFloat == RouteInit /\ IpIdle /\ DnsIdle /\ CycleIdle /\ FloatInit /\ OverlapIdle

SpecLatencyFloat == InitLatencyFloat /\ [][SampleLatencyFloat]_vars

\* The per-metric accessors of the monitor, one call at a time.
InitAccessor == RouteInit /\ IpIdle /\ DnsIdle /\ CycleIdle /\ AccessorInit /\ OverlapIdle

SpecAccessor == InitAccessor /\ [][AccessorCall]_vars

\* the address normalizers on given JSON bodies
InitNormalize == RouteInit /\ IpIdle /\ DnsIdle /\ CycleIdle /\ NormalizeInit /\ OverlapIdle

NextNormalize ==
    \/ Normalize
    \/ NormalizeAgain

SpecNormalize == InitNormalize /\ [][NextNormalize]_vars

\* refresh cycles that may overlap
InitOverlap == RouteInit /\ IpIdle /\ DnsIdle /\ CycleIdle /\ FnIdle /\ OverlapIdle

NextOverlap ==
    \/ OverlapStart
    \/ OverlapTrace
    \/ OverlapReturn

SpecOverlap == InitOverlap /\ [][NextOverlap]_vars

Init == RouteInit /\ IpIdle /\ DnsIdle /\ CycleInit /\ FnIdle /\ OverlapIdle

Next ==
    \/ CycleStart
    \/ CycleIpInfo
    \/ CycleSensorReturns
    \/ CycleSensorRaises
    \/ CycleSensorSuspends
    \/ CycleReturn

\* the coordinator's refresh cycles
Spec == Init /\ [][Next]_vars

\* the entries followed under fairness: one address source, at most two
\* sensors enabled
InitLive ==
    /\ Init
    /\ entry.ip_info_source = "ipapi"
    /\ entry.ip_info_token = ""
    /\ Cardinality(entry.enabled) <= 2

\* the refresh cycles under the event loop: an awaited call that completes
\* (by itself or by its timeout) lets the coroutine go on
SpecLive ==
    /\ InitLive /\ [][Next]_vars
    /\ WF_vars(CycleIpInfo)
    /\ WF_vars(CycleSensorReturns)
    /\ WF_vars(CycleReturn)

(***************************************************************************)
(* Properties                                                              *)
(***************************************************************************)

\* what methods[j] contributes to the chain in the given environment, after
\* the exclusion filter
FilteredAnswer(j) ==
    FilterContainer(
        CallMethod(methods[j], dns_in,
                   IF j >= 3 /\ dns_in.nslookup = "exit0" THEN 1 ELSE 0).detected)

Configured ==
    {p \in DOMAIN ip_in.config : p = "ipgeolocation" => Truthy(ip_in.config[p].api_key)}

ExpectedOrder ==
    (IF ip_in.preferred \in Configured THEN <<ip_in.preferred>> ELSE <<>>)
        \o SelectSeq(fallback_order, LAMBDA p : p \in Configured /\ p # ip_in.preferred)

ProviderRaises(p) ==
    Provider_get_ip_info(p, ip_in.config[p], ip_in.outcomes[p]).raised

SourceLabel(p) ==
    CASE p = "ipinfo" -> "ipinfo.io" [] p = "ipapi" -> "ip-api.com" [] OTHER -> "ipgeolocation.io"

\* C2: the lookup chain attempts the preferred provider first and then the
\* other configured providers in the order ipapi, ipinfo, ipgeolocation, each
\* at most once and only configured ones; it returns the record of the first
\* provider that does not raise and attempts none after it.
C2_PreferredThenFallback ==
    ip_out.done =>
        LET n == Len(ip_out.attempts)
            tried == [i \in 1..n |-> ip_out.attempts[i].source]
        IN  /\ n <= Len(ExpectedOrder)
            /\ tried = SubSeq(ExpectedOrder, 1, n)
            /\ \A i, j \in 1..n : tried[i] = tried[j] => i = j
            /\ \A i \in 1..n : tried[i] \in Configured
            /\ \A i \in 1..(n - 1) : ProviderRaises(tried[i])
            /\ IF ip_out.result.raised
               THEN n = Len(ExpectedOrder) /\ \A i \in 1..n : ProviderRaises(tried[i])
               ELSE /\ n >= 1
                    /\ ~ProviderRaises(tried[n])
                    /\ ip_out.result.data.source = SourceLabel(tried[n])

\* C2's case: the preferred provider is unreachable, the next one answers, a
\* third one is configured and is not attempted.
C2_Witness ==
    /\ ip_out.done
    /\ ip_in.preferred = "ipinfo"
    /\ Configured = ProviderNames
    /\ ip_in.outcomes["ipinfo"].kind = "timeout"
    /\ Len(ip_out.attempts) = 2
    /\ ~ip_out.result.raised
    /\ ip_out.result.data.source = "ip-api.com"

\* C3: when every attempted provider raises, or none is configured, the chain
\* raises an aggregate error naming the last underlying error, and the ip_info
\* entry has status 'error' and a non-empty error string, not an address record.
C3_AllProvidersFail ==
    (ip_out.done /\ ip_out.result.raised) =>
        LET n == Len(ip_out.attempts)
            last == IF n = 0 THEN "None"
                    ELSE LET p == ip_out.attempts[n].source
                         IN  Provider_get_ip_info(p, ip_in.config[p], ip_in.outcomes[p]).error
        IN  /\ ip_out.result.error = "All IP info sources failed. Last error: " \o last
            /\ ip_out.entry.status = "error"
            /\ ip_out.entry.error # PyNone
            /\ ip_out.entry.error # ""
            /\ DOMAIN ip_out.entry = {"status", "error", "timestamp"}

\* C3's case: two providers were attempted and both raised.
C3_Witness ==
    /\ ip_out.done
    /\ ip_out.result.raised
    /\ Len(ip_out.attempts) = 2
    /\ ip_out.entry.status = "error"
    /\ ip_out.entry.error = "All IP info sources failed. Last error: HTTP 500: unavailable"

\* get_all_sensor_data has returned its report (results) in this cycle
Collected == pc = "done" /\ ConfigValid(_create_config_from_entry(entry))

LogOf(sensor) == {i \in 1..Len(probe_log) : probe_log[i].sensor = sensor}

\* C4: in one collection cycle a probe whose get_data raises gets an entry
\* with status 'error'; every enabled probe is invoked exactly once, and the
\* result of each probe that returned is in the report unchanged.
C4_FailureIsolated ==
    Collected =>
        \A s \in entry.enabled :
            /\ Cardinality(LogOf(s)) = 1
            /\ \A i \in LogOf(s) :
                  IF probe_log[i].raised
                  THEN results[s].status = "error"
                  ELSE results[s] = probe_log[i].returned

\* C4's case: the first probe raised, a later one returned its result.
C4_Witness ==
    /\ Collected
    /\ Len(probe_log) = 3
    /\ probe_log[1].raised
    /\ ~probe_log[2].raised
    /\ probe_log[3].raised
    /\ results[probe_log[2].sensor].status = "online"

\* C5: the report of a collection cycle has one entry for the address lookup
\* and one for each enabled metric, whatever the probes did, and no other.
C5_ReportKeys ==
    Collected => DOMAIN results = {"ip_info"} \cup entry.enabled

\* C5's case: three metrics enabled, one probe raised, the lookup failed.
C5_Witness ==
    /\ Collected
    /\ Cardinality(entry.enabled) = 3
    /\ \E i \in 1..Len(probe_log) : probe_log[i].raised
    /\ results["ip_info"].timestamp = Now
    /\ "status" \in DOMAIN results["ip_info"]

SameSnapshots(log) == \A i, j \in 1..Len(log) : log[i] = log[j]

\* C6: the route history never holds more than max_history snapshots and is
\* always the last min(k, max_history) appended snapshots in arrival order;
\* with identical snapshots the stability stays 100.0.
C6_BoundedFifo ==
    LET k == Len(trace_log)
        m == IF k < max_history THEN k ELSE max_history
    IN  /\ Len(route_history) <= max_history
        /\ route_history = SubSeq(trace_log, k - m + 1, k)
        /\ (route_result.status = "online" /\ SameSnapshots(trace_log))
               => route_result.overall_stability = 10000

\* C6's case: an eleventh identical snapshot arrived at capacity.
C6_Witness ==
    /\ Len(trace_log) = max_history + 1
    /\ Len(route_history) = max_history
    /\ SameSnapshots(trace_log)
    /\ route_result.status = "online"
    /\ route_result.overall_stability = 10000

Abs(x) == IF x < 0 THEN -x ELSE x

RouteA == <<"10.0.0.1", "198.51.100.1">>
RouteB == <<"198.51.100.1", "10.0.0.1">>

\* C7: after a successful trace the reported stability is 100.0 with fewer
\* than 2 snapshots, and otherwise 100 * (the other snapshots equal to the
\* appended one) / (history size - 1), to the two decimals reported; after
\* A,B,A,B,A it is 50.0.
C7_StabilityFormula ==
    route_result.status = "online" =>
        LET n == Len(route_history)
            matches == Cardinality({i \in 1..(n - 1) :
                                       route_history[i] = route_result.current_route})
            reported == route_result.overall_stability
        IN  /\ n >= 1
            /\ route_history[n] = route_result.current_route
            /\ IF n < 2 THEN reported = 10000
               ELSE 2 * Abs(reported * (n - 1) - 10000 * matches) <= n - 1
            /\ trace_log = <<RouteA, RouteB, RouteA, RouteB, RouteA>> => reported = 5000

\* C7's case: the fifth report of A,B,A,B,A.
C7_Witness ==
    /\ route_result.status = "online"
    /\ trace_log = <<RouteA, RouteB, RouteA, RouteB, RouteA>>
    /\ route_result.overall_stability = 5000

\* C8: the route history persists across refresh cycles: in the k-th of k
\* consecutive cycles whose traces succeed, route_changes is min(k, 10) - 1.
C8_HistoryPersists ==
    (Collected /\ "route_stability" \in DOMAIN results
               /\ results["route_stability"].status = "online") =>
        results["route_stability"].route_changes
            = (IF streak < max_history THEN streak ELSE max_history) - 1

ErrorSet(e) == Get(e, "error") # PyNone

\* C9 as stated: in every entry of every report the status is 'error' if and
\* only if the error field is set.
C9_ErrorIffErrorStatus ==
    \A k \in DOMAIN results : (Get(results[k], "status") = "error") <=> ErrorSet(results[k])

\* C9: in every entry of every report, status 'error' comes with an error
\* message, and an error message comes only with status 'error' or 'offline'.
C9_ErrorStatusHasError ==
    \A k \in DOMAIN results :
        /\ Get(results[k], "status") = "error" => ErrorSet(results[k])
        /\ ErrorSet(results[k]) => Get(results[k], "status") \in {"error", "offline"}

\* C9's case: a report holding an 'offline' entry with an error message and
\* an 'error' entry.
C9_Witness ==
    /\ Collected
    /\ "latency" \in DOMAIN results
    /\ results["latency"].status = "offline"
    /\ results["latency"].error = "All ping attempts failed"
    /\ results["ip_info"].status = "error"
    /\ results["ip_info"].error # PyNone

\* C10: every entry of a report carries a status field and a timestamp field.
C10_StatusAndTimestamp ==
    \A k \in DOMAIN results : {"status", "timestamp"} \subseteq DOMAIN results[k]

\* a dotted quad: four non-empty groups of at most three digits
IsDottedQuad(s) ==
    LET dots == {i \in 1..Len(s) : s[i] = "."}
    IN  /\ \A i \in 1..Len(s) : s[i] \in {Digit(n) : n \in 0..9} \cup {"."}
        /\ Cardinality(dots) = 3
        /\ \A i \in dots : i > 1 /\ i < Len(s) /\ (i + 1) \notin dots
        /\ \A i \in 1..(Len(s) - 3) : \E j \in i..(i + 3) : j \in dots

\* no method that asks the environment yields a candidate that survives
NoEnvironmentCandidate == \A j \in 1..5 : FilteredAnswer(j) = <<>>

\* C11: DNS discovery never reports total failure: whatever the methods do
\* (empty, failing, timing out, only excluded candidates) it returns a
\* non-empty server list and a source, and the DNS entry's primary server is
\* the first of them, an address and not a placeholder.
C11_NeverTotalFailure ==
    dns_out.done =>
        /\ dns_out.dns_servers # <<>>
        /\ dns_out.source_used # "unknown"
        /\ dns_out.result.all_dns_servers = dns_out.dns_servers
        /\ dns_out.result.source = dns_out.source_used
        /\ dns_out.result.primary_dns = dns_out.dns_servers[1]
        /\ dns_out.result.primary_dns # Unknown
        /\ IsDottedQuad(dns_out.result.primary_dns)

\* C11's case: the Supervisor gives only an excluded candidate, nslookup
\* times out, "ip route" fails, systemd-resolve lists nothing, resolv.conf
\* cannot be read, and a server list is returned all the same.
C11_Witness ==
    /\ dns_out.done
    /\ dns_in.supervisor.servers = <<LanRouter>>
    /\ dns_in.nslookup = "timeout"
    /\ dns_in.ip_route[1].kind = "nonzero"
    /\ dns_in.systemd = [kind |-> "exit0", servers |-> <<>>]
    /\ dns_in.resolv.kind = "missing"
    /\ NoEnvironmentCandidate
    /\ Len(dns_out.dns_servers) >= 2
    /\ dns_out.result.primary_dns = Ip4(8, 8, 8, 8)

\* C12: when no method that asks the environment yields a surviving
\* candidate, discovery returns the fixed default list and reports the source
\* 'public_fallback'.
C12_PublicFallbackSource ==
    (dns_out.done /\ NoEnvironmentCandidate) =>
        /\ dns_out.dns_servers \in {<<Ip4(8, 8, 8, 8), Cloudflare>>, _get_common_dns_servers}
        /\ dns_out.source_used = "public_fallback"

\* the blocks C13 names, on the octets of a dotted quad (<<>> stands for ::1)
Internal(octets) ==
    \/ octets = <<>>
    \/ octets # <<>> /\ \/ octets[1] = 127
                        \/ octets[1] = 10
                        \/ octets[1] = 172 /\ octets[2] \in 16..31
                        \/ octets[1] = 192 /\ octets[2] = 168
                        \/ octets[1] = 169 /\ octets[2] = 254

\* C13: the exclusion predicate is true for every loopback address (127.x.x.x,
\* ::1), every address of the Docker-default block, of 10/8, 172.16/12 and
\* 192.168/16, and every link-local address (169.254/16).
C13_ExcludesInternal ==
    (fn_out.done /\ Internal(fn_in.octets)) => fn_out.excluded

\* C14: no address of the returned server list satisfies the exclusion
\* predicate, whichever method produced the list.
C14_NoExcludedReturned ==
    dns_out.done =>
        \A i \in 1..Len(dns_out.dns_servers) : ~_is_container_dns(dns_out.dns_servers[i])

\* C14's case: the gateway is an excluded address and is rejected; resolv.conf
\* lists an excluded address before two others, which are returned.
C14_Witness ==
    /\ dns_out.done
    /\ dns_in.ip_route[1].gateways = <<LanRouter>>
    /\ dns_in.resolv.servers = <<DockerGw, Quad9, Cloudflare>>
    /\ dns_out.source_used = "_get_resolv_conf_dns"
    /\ dns_out.dns_servers = <<Quad9, Cloudflare>>

\* the time= values of the pings of this invocation that were answered
Answered ==
    LET ok == SelectSeq(fn_in.pings, LAMBDA o : o.kind = "exit0")
    IN  [i \in 1..Len(ok) |-> ok[i].ms]

\* C15: the latency probe reports 'online' with average, min and max over
\* the answered pings only (an unanswered one contributes no value) whenever
\* at least one ping is answered, and 'offline' with the error 'All ping
\* attempts failed' exactly when none is.
C15_LatencyOverSuccessful ==
    "latency" \in DOMAIN fn_out =>
        LET r == fn_out["latency"]
            n == Len(Answered)
            values == {Answered[i] : i \in 1..n}
        IN  IF n >= 1
            THEN /\ r.status = "online"
                 /\ r.error = PyNone
                 /\ r.min \in values /\ \A v \in values : r.min <= v
                 /\ r.max \in values /\ \A v \in values : r.max >= v
                 /\ 2 * Abs(r.average * n - Sum(Answered)) <= n
            ELSE /\ r.status = "offline"
                 /\ r.error = "All ping attempts failed"

\* C15's case: of three pings the first fails, the others are answered in
\* 12.5 ms and 30 ms: average 21.25, min 12.5, max 30.
C15_Witness ==
    /\ "latency" \in DOMAIN fn_out
    /\ Len(fn_in.pings) = 3
    /\ fn_in.pings[1].kind = "timeout"
    /\ Answered = <<1250, 3000>>
    /\ fn_out["latency"].average = 2125
    /\ fn_out["latency"].min = 1250
    /\ fn_out["latency"].max = 3000

\* C16: with k pings of which s are answered the packet-loss probe reports
\* average = 100 * (k - s) / k (to the two decimals reported) with no error,
\* status 'offline' exactly when the loss is at least 50 and 'online'
\* otherwise; with all pings lost it reports 100.
C16_PacketLossFormula ==
    "packet_loss" \in DOMAIN fn_out =>
        LET r == fn_out["packet_loss"]
            k == Len(fn_in.pings)
            s == Len(Answered)
        IN  /\ 2 * Abs(r.average * k - 10000 * (k - s)) <= k
            /\ r.error = PyNone
            /\ (r.status = "offline") <=> (100 * (k - s) >= 50 * k)
            /\ (r.status = "online") <=> (100 * (k - s) < 50 * k)
            /\ s = 0 => r.average = 10000

\* C16's case: all three pings are lost.
C16_Witness ==
    /\ "packet_loss" \in DOMAIN fn_out
    /\ Len(fn_in.pings) = 3
    /\ Answered = <<>>
    /\ fn_out["packet_loss"] = [average |-> 10000, status |-> "offline", error |-> PyNone]

\* C17: the jitter probe is 'offline' with the insufficient-data error when
\* fewer than two pings are answered and 'online' when at least two are;
\* with exactly one answered ping of value v jitter is offline while the
\* latency probe on the same pings reports average = min = max = v.
C17_JitterNeedsTwo ==
    "jitter" \in DOMAIN fn_out =>
        LET j == fn_out["jitter"]
            n == Len(Answered)
        IN  /\ n < 2 => /\ j.status = "offline"
                        /\ j.error = "Insufficient data for jitter calculation"
            /\ n >= 2 => j.status = "online" /\ j.error = PyNone
            /\ (n = 1 /\ "latency" \in DOMAIN fn_out) =>
                   LET l == fn_out["latency"]
                   IN  /\ j.status = "offline"
                       /\ l.status = "online"
                       /\ l.average = Answered[1]
                       /\ l.min = Answered[1]
                       /\ l.max = Answered[1]

\* C17's case: one of three pings is answered; both probes have reported.
C17_Witness ==
    /\ {"jitter", "latency"} \subseteq DOMAIN fn_out
    /\ Len(fn_in.pings) = 3
    /\ Answered = <<3000>>
    /\ fn_out["jitter"].status = "offline"
    /\ fn_out["latency"].average = 3000

CanonicalFields ==
    {"ip", "hostname", "city", "region", "country", "latitude", "longitude",
     "organization", "postal_code", "timezone", "source"}

\* C18: re-running a provider's normalize_data on a record it returned gives
\* the same record: every canonical field keeps its value (timestamp aside).
C18_NormalizeIdempotent ==
    fn_out.runs = 2 =>
        \A f \in CanonicalFields : fn_out.record[f] = fn_out.first[f]

\* C19: every collection cycle that began eventually returns its report,
\* whatever the external calls of the probes do.
C19_CycleReturns == (pc = "ip_info") ~> (pc = "done")

\* C20: a refresh cycle that fails while the configuration is built does not
\* return entries with status 'online': the failure is surfaced as an error.
C20_FailureSurfaced ==
    (pc = "done" /\ ~ConfigValid(_create_config_from_entry(entry))) =>
        /\ "sensors" \in DOMAIN data
        /\ \A k \in DOMAIN data.sensors : data.sensors[k].status # "online"

\* C21: when the trace fails (non-zero exit, timeout, or no hop parsed) the
\* route-stability probe returns status 'offline' with an error set and
\* leaves the route history exactly as it was.
C21_FailureLeavesHistory ==
    \A outcome \in TraceOutcomes :
        _get_route(outcome) \in {<<>>, <<<<>>>>} =>
            LET r == RouteStabilitySensor_get_data(route_history, outcome)
            IN  /\ r.history = route_history
                /\ r.result.status = "offline"
                /\ r.result.error # PyNone

\* C21's case: a trace failed on a tracker holding three snapshots.
C21_Witness ==
    /\ route_result.status = "offline"
    /\ route_result.error = "Failed to get route"
    /\ Len(trace_log) = 3
    /\ route_history = trace_log

\* C22: on every successful invocation route_changes is the history size
\* after the append and the eviction, minus 1, whether the snapshots differ
\* or not; it is between 0 and 9.
C22_RouteChangesIsSizeMinusOne ==
    route_result.status = "online" =>
        /\ route_result.route_changes = Len(route_history) - 1
        /\ route_result.route_changes \in 0..9

\* C22's case: three identical snapshots, stability 100.0, route_changes 2.
C22_Witness ==
    /\ route_result.status = "online"
    /\ trace_log = <<RouteA, RouteA, RouteA>>
    /\ route_result.overall_stability = 10000
    /\ route_result.route_changes = 2

\* the external query of methods[j] fails in this environment: no token, a
\* failed request or a malformed answer, a non-zero exit, a timeout, a
\* missing file
MethodFails(j) ==
    CASE j = 1 -> dns_in.supervisor.kind \in {"no_token", "failed"}
      [] j = 2 -> \/ dns_in.nslookup \in {"nonzero", "timeout"}
                  \/ dns_in.ip_route[1].kind = "nonzero"
      [] j = 3 -> dns_in.ip_route[IF dns_in.nslookup = "exit0" THEN 2 ELSE 1].kind = "nonzero"
      [] j = 4 -> dns_in.systemd.kind = "nonzero"
      [] j = 5 -> dns_in.resolv.kind = "missing"
      [] OTHER -> FALSE

\* C23: a detection method whose query fails produces no candidates and the
\* discovery goes on with the next method; without the SUPERVISOR_TOKEN the
\* supervisor method makes no request; no error of a method is reported in
\* the DNS entry.
C23_MethodFailureContinues ==
    dns_out.done =>
        /\ \A j \in 1..5 :
              (j <= Len(dns_out.calls) /\ MethodFails(j)) =>
                  /\ FilteredAnswer(j) = <<>>
                  /\ Len(dns_out.calls) > j
                  /\ dns_out.calls[j + 1] = methods[j + 1]
        /\ dns_in.supervisor.kind = "no_token" => CountOf(dns_out.queries, "supervisor") = 0
        /\ dns_out.result.error = (IF dns_in.resolves THEN PyNone ELSE "DNS resolution failed")
        /\ dns_out.dns_servers # <<>>

\* C23's case: no token, nslookup times out, "ip route" exits non-zero,
\* systemd-resolve exits non-zero, resolv.conf is missing: all six methods
\* are called, the Supervisor is not asked, no error is reported.
C23_Witness ==
    /\ dns_out.done
    /\ \A j \in 1..5 : MethodFails(j)
    /\ dns_in.supervisor.kind = "no_token"
    /\ dns_in.nslookup = "timeout"
    /\ dns_out.calls = methods
    /\ dns_out.queries = <<"nslookup", "ip route", "systemd-resolve", "resolv.conf">>
    /\ dns_out.result.error = PyNone

\* the address lookup of this cycle was cut off by the ceiling
TimedOutLookup ==
    /\ "ip_info" \in DOMAIN results
    /\ Get(results["ip_info"], "error") = "Request timed out"

\* C24: a lookup that does not finish within the 30 s ceiling gives the
\* ip_info entry status 'error' with error 'Request timed out', and every
\* enabled probe is still invoked and reported in the same cycle.
C24_LookupTimeoutIsolated ==
    /\ pc = "ip_info" =>
          \A kinds \in CycleProviderOutcomes :
              LET config_data == _create_config_from_entry(entry)
                  outcomes == [p \in ProviderNames |-> ProviderOutcomeOf(p, kinds[p])]
                  run == IPInfoManager_get_ip_info(config_data.ip_info_config,
                                                   config_data.ip_info_source, outcomes)
              IN  SumSecs(run.attempts) > LookupCeiling =>
                      ISPHealthMonitor_get_ip_information(
                          config_data.ip_info_config, config_data.ip_info_source, outcomes)
                        = [status |-> "error", error |-> "Request timed out",
                           timestamp |-> Now]
    /\ (Collected /\ TimedOutLookup) =>
          /\ results["ip_info"].status = "error"
          /\ \A s \in entry.enabled : Cardinality(LogOf(s)) = 1 /\ s \in DOMAIN results

\* C24's case: the three providers time out one after the other (10 + 10 + 15
\* seconds), the lookup is cut off, and the two enabled probes return.
C24_Witness ==
    /\ Collected
    /\ TimedOutLookup
    /\ Cardinality(entry.enabled) = 2
    /\ Len(probe_log) = 2
    /\ \A i \in 1..2 : ~probe_log[i].raised /\ results[probe_log[i].sensor].status = "online"

\* C25: every entry the setup form accepts yields a Config that passes
\* validation in the refresh cycles.
C25_AcceptedEntryValidates ==
    pc # "idle" => ConfigValid(_create_config_from_entry(entry))

\* C26: no route history is appended to by two refresh cycles, overlapping
\* or not: every sensor object's history has at most one writing cycle.
C26_NoSharedHistory ==
    \A o \in 1..Len(heap) :
        /\ Cardinality(heap[o].writers) <= 1
        /\ Len(heap[o].route_history) <= 1

\* C26's case: the second cycle started before the first settled, and both
\* have appended a snapshot.
C26_Witness ==
    /\ Len(cycles) >= 2
    /\ cycles[1].stage = "traced"
    /\ cycles[2].stage = "traced"
    /\ heap[cycles[1].sensor].writers = {1}
    /\ heap[cycles[2].sensor].writers = {2}

\* C27: in the latency, packet-loss and jitter probes a failed ping never
\* aborts the sampling: count pings are issued in every invocation, and the
\* statistics are those of the answered ones.
C27_AllSamplesIssued ==
    /\ \A name \in {"latency", "packet_loss", "jitter"} :
          name \in DOMAIN fn_out => fn_out[name \o "_pings"] = Len(fn_in.pings)
    /\ Len(Latencies(fn_in.pings)) = Len(Answered)
    /\ "packet_loss" \in DOMAIN fn_out =>
          (fn_out["packet_loss"].average = 0 <=> Len(Answered) = Len(fn_in.pings))

\* C27's case: the first of four pings fails, the three later ones are
\* answered; all three probes have issued four pings.
C27_Witness ==
    /\ {"latency", "packet_loss", "jitter"} \subseteq DOMAIN fn_out
    /\ Len(fn_in.pings) = 4
    /\ fn_in.pings[1].kind = "nonzero"
    /\ Len(Answered) = 3
    /\ fn_out["latency_pings"] = 4
    /\ fn_out["packet_loss_pings"] = 4
    /\ fn_out["jitter_pings"] = 4
    /\ fn_out["packet_loss"].average = 2500
    /\ fn_out["jitter"].status = "online"

\* the orders in which the same outcomes can arrive
Permuted(s) ==
    { [i \in 1..Len(s) |-> s[p[i]]] :
        p \in { f \in [1..Len(s) -> 1..Len(s)] :
                   \A i, j \in 1..Len(s) : f[i] = f[j] => i = j } }

\* C28 (its latency part): the latency sensor reports the same average,
\* minimum and maximum for every order in which the same ping times arrive.
C28_OrderIndependent ==
    (fn_in.fn = "latency_float" /\ "latency" \in DOMAIN fn_out) =>
        \A times \in Permuted(fn_in.times) :
            LatencySensor_get_data_float(times) = fn_out["latency"]

\* C29: the accessor of a metric that is not enabled returns a result whose
\* status is 'disabled' and that has no other field, and no sensor's get_data
\* is awaited for it.
C29_DisabledAccessor ==
    (/\ fn_in.fn = "accessor"
     /\ fn_out.done
     /\ fn_in.name \notin {fn_in.sensors[i] : i \in 1..Len(fn_in.sensors)}) =>
        /\ fn_out.result.status = "disabled"
        /\ DOMAIN fn_out.result = {"status"}
        /\ fn_out.probes = <<>>

\* get_throughput was called on a monitor with other sensors enabled
C29_Witness ==
    /\ fn_in.fn = "accessor"
    /\ fn_out.done
    /\ fn_in.name = "throughput"
    /\ fn_in.sensors = <<"latency", "route_stability">>
    /\ fn_out.result = [status |-> "disabled"]
    /\ fn_out.probes = <<>>

\* C30: a refresh cycle always ends by returning a mapping with the keys
\* sensors, last_update and update_interval; when the cycle failed (the
\* configuration built from the entry is rejected) its sensors mapping has
\* all eight entries, each 'online', whatever the entry enables.
C30_CycleNeverRaises ==
    /\ pc \in {"idle", "ip_info", "sensors", "suspended", "done"}
    /\ pc = "done" => DOMAIN data = {"sensors", "last_update", "update_interval"}
    /\ (pc = "done" /\ ~ConfigValid(_create_config_from_entry(entry))) =>
          /\ DOMAIN data.sensors = SensorSet \cup {"ip_info"}
          /\ \A s \in DOMAIN data.sensors : data.sensors[s].status = "online"

\* a cycle failed for an entry that enables the latency sensor only
C30_Witness ==
    /\ pc = "done"
    /\ entry.enabled = {"latency"}
    /\ ~ConfigValid(_create_config_from_entry(entry))
    /\ Cardinality(DOMAIN data.sensors) = 8
    /\ data.sensors["throughput"].status = "online"
    /\ data.sensors["ip_info"].source = "mock"

\* C31: within one discovery no external query (the Supervisor request,
\* nslookup, "ip route show default", systemd-resolve, the read of
\* /etc/resolv.conf) is made more than once.
C31_EachQueryOnce ==
    dns_out.done =>
        \A i, j \in 1..Len(dns_out.queries) :
            dns_out.queries[i] = dns_out.queries[j] => i = j

\* C32: the exclusion predicate rejects non-public addresses only: an address
\* that is not loopback, not in 10/8, 172.16/12 or 192.168/16 and not
\* link-local is accepted.
C32_PublicAccepted ==
    (fn_out.done /\ ~Internal(fn_in.octets)) => ~fn_out.excluded

\* C33: a trace that exits 0 but has no parseable hop is answered as a failed
\* trace, 'offline' with 'Failed to get route', and is not appended: every
\* snapshot of the route history has at least one hop.
C33_NoEmptySnapshot ==
    /\ \A i \in 1..Len(route_history) : route_history[i] # <<>>
    /\ \A i \in 1..Len(trace_log) : trace_log[i] # <<>>
    /\ (last_trace.kind = "exit0" /\ ParseHops(last_trace.hops) = <<>>) =>
          /\ route_result.status = "offline"
          /\ route_result.error = "Failed to get route"

\* C33's case: after two appended snapshots a trace exits 0 with "*" lines only
C33_Witness ==
    /\ last_trace = [kind |-> "exit0", hops |-> <<"*", "*">>]
    /\ route_result.status = "offline"
    /\ route_history = <<RouteA, RouteB>>

\* C34: within one cycle the probes run one after another, the address
\* lookup first: no sensor is asked before the lookup has its result, the
\* sensors are asked in the order of self.sensors, and each is asked only
\* when all before it have their result or their failure recorded.
C34_ProbesInSequence ==
    LET config_data == _create_config_from_entry(entry)
        order == _initialize_sensors(config_data)
    IN  (pc \in {"ip_info", "sensors", "suspended", "done"} /\ ConfigValid(config_data)) =>
            /\ pc = "ip_info" => (probe_log = <<>> /\ results = EmptyDict)
            /\ pc # "ip_info" => "ip_info" \in DOMAIN results
            /\ Len(probe_log) + Len(todo) = Len(order)
            /\ \A i \in 1..Len(probe_log) :
                  /\ probe_log[i].sensor = order[i]
                  /\ order[i] \in DOMAIN results
                  /\ probe_log[i].raised => results[order[i]].status = "error"
            /\ \A i \in 1..Len(todo) :
                  /\ todo[i] = order[Len(probe_log) + i]
                  /\ todo[i] \notin DOMAIN results

\* C34's case: of three enabled sensors the first raised, the second
\* returned and the third was not asked yet
C34_Witness ==
    /\ pc = "sensors"
    /\ Len(probe_log) = 2
    /\ probe_log[1].raised
    /\ ~probe_log[2].raised
    /\ Len(todo) = 1
    /\ DOMAIN results = {"ip_info", probe_log[1].sensor, probe_log[2].sensor}

\* C35: the status of the DNS-configuration probe follows the resolution test
\* alone: 'online' with no error when google.com resolves, 'offline' with
\* 'DNS resolution failed' when it does not, whichever method found the
\* servers; primary_dns is the first and secondary_dns the second server of
\* the discovery, or 'None' when there is one server only.
C35_StatusFollowsResolution ==
    dns_out.done =>
        /\ dns_in.resolves =>
              (dns_out.result.status = "online" /\ dns_out.result.error = PyNone)
        /\ ~dns_in.resolves =>
              (dns_out.result.status = "offline"
                 /\ dns_out.result.error = "DNS resolution failed")
        /\ dns_out.result.all_dns_servers = dns_out.dns_servers
        /\ dns_out.result.primary_dns = dns_out.dns_servers[1]
        /\ dns_out.result.secondary_dns =
              IF Len(dns_out.dns_servers) > 1 THEN dns_out.dns_servers[2] ELSE NoneText

\* C35's case: no method of the environment finds a server, the common
\* servers are returned and the test resolution succeeds
C35_Witness ==
    /\ dns_out.done
    /\ dns_in.resolves
    /\ dns_out.source_used = "_get_common_dns_servers"
    /\ dns_out.result.status = "online"
    /\ dns_out.result.secondary_dns = Cloudflare

\* a discovery that found one server while the test resolution failed
C35_OneServer ==
    /\ dns_out.done
    /\ ~dns_in.resolves
    /\ dns_out.dns_servers = <<Quad9>>
    /\ dns_out.result.status = "offline"
    /\ dns_out.result.secondary_dns = NoneText

\* C36 (its latency part): whenever the latency sensor is 'online' its
\* minimum is at most its average and its average at most its maximum.
C36_LatencyInRange ==
    (/\ fn_in.fn = "latency_float"
     /\ "latency" \in DOMAIN fn_out
     /\ fn_out["latency"].status = "online") =>
        /\ fn_out["latency"].min <= fn_out["latency"].average
        /\ fn_out["latency"].average <= fn_out["latency"].max

====
